---- MODULE Spec2Model ----
(***************************************************************************)
(* State-machine model of the itsa/event dispatcher (src/event-base.js).   *)
(*                                                                         *)
(* JavaScript runs one call stack at a time.  The model's state is the     *)
(* Event object's registries (_subs, _ce, _runningEvents), the handles     *)
(* returned by subscribe calls, the timer queue filled by setTimeout and   *)
(* the stack of _emit activations.  User code (a test script, a            *)
(* subscriber, a defaultFn) is arbitrary: whenever user code has control   *)
(* (the stack is empty, or the top activation is inside a callback) any    *)
(* API call may happen.  A callback returning or throwing hands control    *)
(* back to _emit, which runs until the next callback or until it returns.  *)
(***************************************************************************)
EXTENDS Integers, Sequences, FiniteSets, TLC

\* ------------------------------------------------------------------ bounds
\* What one run of user code may do is bounded by lim = [subs, emits, other]:
\* the subscribe calls (before, after, onceBefore, onceAfter), the emit calls,
\* and the other calls (defineEvent, handle.detach) and thrown exceptions.
\* The bounds of the dispatch specification:
DispatchSubs == 2
DispatchEmits == 1
DispatchOther == 1
\* The bounds of the guard specification:
GuardSubs == 1
GuardEmits == 4
GuardOther == 2
\* The bounds of the detach specification:
DetachSubs == 3
DetachEmits == 1
DetachOther == 1
\* The bounds of the topics specification:
TopicsSubs == 2
TopicsEmits == 2
TopicsOther == 2
\* The bounds of the once specification:
OnceSubs == 2
OnceEmits == 2
OnceOther == 1

\* The bounds of the notify specification:
NotifySubs == 3
NotifyEmits == 1
NotifyOther == 2

\* The bounds of the handle specification:
HandleSubs == 3
HandleEmits == 1
HandleOther == 2

\* The bounds of the this specification:
ThisSubs == 3
ThisEmits == 2

\* The bounds of the control specification:
ControlSubs == 3
ControlEmits == 1
ControlOther == 1

\* The bounds of the order specification:
OrderSubs == 4
OrderEmits == 1

\* The bounds of the skip specification:
SkipSubs == 2
SkipEmits == 3

\* The bounds of the unnotify specification:
UnnotifySubs == 2
UnnotifyOther == 4

\* The bounds of the override specification:
OverrideSubs == 2
OverrideEmits == 2
OverrideOther == 1

\* The bounds of the live specification:
LiveSubs == 3
LiveEmits == 1
LiveOther == 1

RedefineSubs == 1
RedefineEmits == 2
RedefineOther == 3

\* ------------------------------------------------------- strings and regexps
\* A customEvent string is a sequence of tokens: a word ((\w|-|#)+), "*" or ":".
Words == {"red", "blue", "save", "load", "UI", "undefined", "this"}

RedSave == <<"red", ":", "save">>
BlueLoad == <<"blue", ":", "load">>
AnySave == <<"*", ":", "save">>
RedAny == <<"red", ":", "*">>
RedLoad == <<"red", ":", "load">>
\* 'this:save', the emitter part standing for the subscribing object
ThisSave == <<"this", ":", "save">>
AnyAny == <<"*", ":", "*">>
\* the bare event name 'save', and what subscribe and emit make of it
Save == <<"save">>
UISave == <<"UI", ":", "save">>
UndefinedSave == <<"undefined", ":", "save">>
\* malformed: '*red:save', 'red*:save', ':save'
StarRedSave == <<"*", "red", ":", "save">>
RedStarSave == <<"red", "*", ":", "save">>
ColonSave == <<":", "save">>
Malformed == {StarRedSave, RedStarSave, ColonSave}

\* JavaScript's undefined, where a string or a match result is expected
Undefined == <<>>

MatchCustomEventLoosely(s) ==
    IF Len(s) = 3 /\ s[2] = ":" THEN <<s[1], s[3]>> ELSE Undefined

\* REGEXP_CUSTOMEVENT = /^((?:\w|-|#)+):((?:\w|-|#)+)$/ ; the match's groups 1, 2
MatchCustomEvent(s) ==
    IF Len(s) = 3 /\ s[1] \in Words /\ s[2] = ":" /\ s[3] \in Words
    THEN <<s[1], s[3]>>
    ELSE Undefined

\* REGEXP_WILDCARD_CUSTOMEVENT = /^(?:((?:(?:\w|-|#)+)|\*):)?((?:(?:\w|-|#)+)|\*)$/
\* group 1 is "undefined" (the JavaScript value) when the emitter part is absent
MatchWildcardCustomEvent(s) ==
    IF Len(s) = 3 /\ s[1] \in Words \cup {"*"} /\ s[2] = ":" /\ s[3] \in Words \cup {"*"}
    THEN <<<<s[1]>>, s[3]>>
    ELSE IF Len(s) = 1 /\ s[1] \in Words \cup {"*"}
    THEN <<Undefined, s[1]>>
    ELSE Undefined

\* the keys the model's subscribe calls name in full
TopicKeys == {RedSave, BlueLoad, AnySave, RedAny, AnyAny}

\* every key _subs can get in this model
Keys == TopicKeys \cup {UISave, UndefinedSave, RedLoad}

\* ------------------------------------------------------------------ values
\* the Event object itself, the default owner of a subscriber (item.o)
Instance == "Event"
\* listener argument of a subscribe call: "null" when none is passed
Listeners == {"null", "o1"}
\* user callbacks
Callbacks == {"f"}
\* the objects that defineEmitter(emitter, emitterName) was called on at set-up,
\* lines 123-135, with the name each got: two emitters of one name
EmitterNames == [o \in {"o1", "o2"} |-> "red"]
\* emitter._emitterName: defineEmitter (line 134) gave it to the objects of
\* EmitterNames; the Event object and the others have none, which reads
\* undefined and concatenates as 'undefined' at line 802
EmitterName(emitter) ==
    IF emitter \in DOMAIN EmitterNames THEN EmitterNames[emitter] ELSE "undefined"

\* a callback is a user function, or the wrapperFn that the once-subscribe call
\* numbered wrap created around it
Cb(fn, wrap) == [fn |-> fn, wrap |-> wrap]
NoCb == Cb("undefined", 0)
NoItem ==
    [id |-> 0, o |-> "undefined", cb |-> NoCb, s |-> FALSE, key |-> <<>>,
     before |-> FALSE, call |-> 0, prepend |-> FALSE]

EmptyBucket == [b |-> <<>>, a |-> <<>>]

\* the customEvent arguments the model's subscribe calls draw from: one string,
\* or an array of strings
SubscribeArgs ==
    {<<k>> : k \in TopicKeys} \cup {<<RedSave, RedAny, AnySave, AnyAny>>}

\* the customEvent arguments of emit: two concrete topics and a wildcard topic,
\* which emit rejects
EmitArgs == {RedSave, BlueLoad, RedAny}

VARIABLES
    subs,       \* Event._subs: key -> id of its bucket object, 0 when absent
    buckets,    \* bucket objects: id -> [b, a], the arrays of subscriber items
    ce,         \* Event._ce: key -> definition
    running,    \* Event._runningEvents: the keys set to true
    handles,    \* the handles subscribe calls returned, by call number
    timers,     \* setTimeout(..., 0) tasks not yet run: handle numbers, in order
    stack,      \* the _emit activations, innermost last
    last,       \* the emit or detach call that completed in the last step, and its result
    fired,      \* per once-subscribe call: how often its user callback ran
    notifiers,  \* Event._notifiers: key -> notifier, NoNotifier when absent
    notified,   \* the notifier invocations so far: <<key of the notifier, customEvent passed>>
    detachNotifiers,  \* Event._detachNotifiers: key -> notifier, NoNotifier when absent
    detachNotified,   \* the detach-notifier invocations so far, as in notified
    n,          \* API calls made so far, by kind
    lim         \* the calls a run may make, by kind

vars == <<subs, buckets, ce, running, handles, timers, stack, last, fired, notifiers,
          notified, detachNotifiers, detachNotified, n, lim>>

\* ---------------------------------------------------------------- JavaScript
NeverTruthy(v) == FALSE

\* values of e.status fields and of the reason arguments: "undefined", "true",
\* "false" or a reason string
Truthy(v) == v \notin {"undefined", "false"}

\* reason || true
OrTrue(reason) == IF Truthy(reason) THEN reason ELSE "true"

\* arguments the model passes to halt and preventDefault: none, or a reason
Reasons == {"undefined", "blocked"}

\* ------------------------------------------------------------- subscriptions
\* A subscriber item {o, cb} of src/event-base.js:658-662, its s undefined (FALSE
\* here) until line 671 sets it; id numbers the items in the order they were
\* created (the object's identity); key, before, call and prepend note where the
\* item was registered, by which subscribe call and with which prepend argument
\* (the model never reads them to decide anything).
Item(id, o, cb, key, before, call) ==
    [id |-> id, o |-> o, cb |-> cb, s |-> FALSE, key |-> key, before |-> before,
     call |-> call, prepend |-> FALSE]

\* An array that was never created and an empty one read alike everywhere
\* (src/event-base.js:681, 684, 920, 975, 976): both are <<>> here.
ArrOfOtherPhase(bk, id, before) == IF before THEN bk[id].a ELSE bk[id].b

\* subscribers.b or subscribers.a, src/event-base.js:919
Arr(bk, id, before) == IF before THEN bk[id].b ELSE bk[id].a

\* an id no live bucket object has
FreshId(bk) == CHOOSE i \in 1..(Cardinality(DOMAIN bk) + 1) : i \notin DOMAIN bk

\* listener || instance
OwnerOf(listener) == IF listener = "null" THEN Instance ELSE listener

InsertAppending(arr, item, prepend) == Append(arr, item)

\* hashtable.unshift(item) or hashtable.push(item)
Insert(arr, item, prepend) == IF prepend THEN <<item>> \o arr ELSE Append(arr, item)

\* an entry of _notifiers: {cb, o, r}, r (once) the only field that decides
\* anything
NoNotifier == [set |-> FALSE, once |-> FALSE]
Notifier(once) == [set |-> TRUE, once |-> once]

\* the customEvent with its eventName, its emitterName, or both replaced by "*":
\* lines 701, 709 and WILDCARD_WILDCARD
NotifierKeys(customEvent) ==
    <<customEvent, <<customEvent[1], ":", "*">>, <<"*", ":", customEvent[3]>>, AnyAny>>

FireNotifierKeeping(N, key, customEvent) ==
    IF key \in DOMAIN N.notifiers /\ N.notifiers[key].set
    THEN [notifiers |-> N.notifiers,
          notified |-> Append(N.notified, <<key, customEvent>>)]
    ELSE N

\* lines 692-697, and each of 702-707, 710-715, 717-722: the notifier on key, if
\* there is one, is called with customEvent; N = [notifiers, notified]
FireNotifier(N, key, customEvent) ==
    IF key \in DOMAIN N.notifiers /\ N.notifiers[key].set
    THEN [notifiers |-> IF N.notifiers[key].once
                        THEN [N.notifiers EXCEPT ![customEvent] = NoNotifier]
                        ELSE N.notifiers,
          notified |-> Append(N.notified, <<key, customEvent>>)]
    ELSE N

\* lines 690-723
FireNotifiers(N, customEvent) ==
    IF customEvent[1] = "*" \/ customEvent[3] = "*" THEN N
    ELSE LET ks == NotifierKeys(customEvent)
         IN  FireNotifier(FireNotifier(FireNotifier(FireNotifier(
                 N, ks[1], customEvent), ks[2], customEvent), ks[3], customEvent),
                 ks[4], customEvent)

\* _addSubscriber on the registry R = [subs, buckets, items, call, out, notifiers,
\* notified]: out is the customEvent the returned handle closes over, Undefined
\* when no handle is returned.
AddSubscriber(R, listener, before, customEvent, callback, prepend) ==
    LET extract == MatchWildcardCustomEvent(customEvent)
        \* line 667: subscribed through 'this'
        this == extract # Undefined /\ extract[1] = <<"this">>
    IN  IF extract = Undefined \/ (this /\ listener \notin DOMAIN EmitterNames)
        THEN \* lines 653-656, 673-676: no item is registered, no handle returned
             \* (with no listener at all line 668 throws before anything changed)
             [R EXCEPT !.out = Undefined]
        ELSE
        LET key == IF extract[1] = Undefined THEN <<"UI", ":">> \o customEvent
                   ELSE IF this THEN <<EmitterName(listener), ":", extract[2]>>
                   ELSE customEvent
            id == IF R.subs[key] # 0 THEN R.subs[key] ELSE FreshId(R.buckets)
            old == IF R.subs[key] # 0 THEN R.buckets[id] ELSE EmptyBucket
            item == [Item(R.items + 1, OwnerOf(listener), callback, key, before, R.call)
                        EXCEPT !.s = this, !.prepend = prepend]
            new == IF before THEN [old EXCEPT !.b = Insert(old.b, item, prepend)]
                   ELSE [old EXCEPT !.a = Insert(old.a, item, prepend)]
            N == FireNotifiers([notifiers |-> R.notifiers, notified |-> R.notified], key)
        IN  [subs |-> [R.subs EXCEPT ![key] = id],
             buckets |-> (id :> new) @@ R.buckets,
             items |-> R.items + 1,
             call |-> R.call,
             out |-> key,
             notifiers |-> N.notifiers,
             notified |-> N.notified,
             detachNotifiers |-> R.detachNotifiers,
             detachNotified |-> R.detachNotified]

RemoveMatchingAnyOwner(arr, owner, callback) ==
    LET Stays(item) == ~(callback = NoCb \/ item.cb = callback)
    IN  SelectSeq(arr, Stays)

\* the items of arr that _removeSubscriber's loop leaves in place
RemoveMatching(arr, owner, callback) ==
    LET Stays(item) == ~(item.o = owner /\ (callback = NoCb \/ item.cb = callback))
    IN  SelectSeq(arr, Stays)

RemoveSubscriberKeeping(R, listener, before, customEvent, callback) ==
    LET id == IF customEvent \in DOMAIN R.subs THEN R.subs[customEvent] ELSE 0
    IN  IF id = 0 THEN R
        ELSE
        LET old == R.buckets[id]
            new == IF before
                   THEN [old EXCEPT !.b = RemoveMatching(old.b, OwnerOf(listener), callback)]
                   ELSE [old EXCEPT !.a = RemoveMatching(old.a, OwnerOf(listener), callback)]
        IN  [R EXCEPT !.buckets = [R.buckets EXCEPT ![id] = new]]

\* lines 956-980 of _removeSubscriber: the loop and the cleanup; callback is
\* NoCb when the argument is omitted
SpliceSubscriber(R, listener, before, customEvent, callback) ==
    LET id == IF customEvent \in DOMAIN R.subs THEN R.subs[customEvent] ELSE 0
    IN  IF id = 0 THEN R
        ELSE
        LET old == R.buckets[id]
            new == IF before
                   THEN [old EXCEPT !.b = RemoveMatching(old.b, OwnerOf(listener), callback)]
                   ELSE [old EXCEPT !.a = RemoveMatching(old.a, OwnerOf(listener), callback)]
            used == Len(new.b) > 0 \/ Len(new.a) > 0
        IN  [R EXCEPT !.buckets = [R.buckets EXCEPT ![id] = new],
                      !.subs = IF used THEN R.subs ELSE [R.subs EXCEPT ![customEvent] = 0]]

FireDetachNotifiersOfAllKeys(R, customEvent) ==
    IF MatchCustomEvent(customEvent) = Undefined THEN R
    ELSE LET N == FireNotifiers([notifiers |-> R.detachNotifiers,
                                 notified |-> R.detachNotified], customEvent)
         IN  [R EXCEPT !.detachNotifiers = N.notifiers, !.detachNotified = N.notified]

\* lines 981-1000 of _removeSubscriber: for a customEvent without wildcard the
\* detach-notifier on customEvent and the one on emitterName:* are called, whether
\* or not a record was removed; a once-notifier deletes
\* _detachNotifiers[customEvent] (lines 989, 997)
FireDetachNotifiers(R, customEvent) ==
    IF MatchCustomEvent(customEvent) = Undefined THEN R
    ELSE LET ks == NotifierKeys(customEvent)
             N == FireNotifier(FireNotifier(
                      [notifiers |-> R.detachNotifiers, notified |-> R.detachNotified],
                      ks[1], customEvent), ks[2], customEvent)
         IN  [R EXCEPT !.detachNotifiers = N.notifiers, !.detachNotified = N.notified]

\* _removeSubscriber, lines 956-1001
RemoveSubscriber(R, listener, before, customEvent, callback) ==
    FireDetachNotifiers(SpliceSubscriber(R, listener, before, customEvent, callback),
                        customEvent)

\* _removeSubscriber(listener, true, key) and _removeSubscriber(listener, false,
\* key): lines 1038-1039, 1049-1050
RemoveBoth(R, listener, key) ==
    RemoveSubscriber(RemoveSubscriber(R, listener, TRUE, key, NoCb),
                     listener, FALSE, key, NoCb)

\* the itsa_each of line 1043 over the keys _subs had when it started
RECURSIVE RemoveEach(_, _, _)
RemoveEach(R, listener, keys) ==
    IF keys = {} THEN R
    ELSE LET key == CHOOSE k \in keys : TRUE
         IN  RemoveEach(RemoveBoth(R, listener, key), listener, keys \ {key})

\* _removeSubscribers, lines 1027-1055
RemoveSubscribers(R, listener, customEvent) ==
    LET extract == MatchWildcardCustomEvent(customEvent)
    IN  IF extract = Undefined THEN R
        ELSE
        LET emitterName == IF extract[1] = Undefined THEN "UI" ELSE extract[1][1]
            eventName == extract[2]
            Match(key) == /\ R.subs[key] # 0
                          /\ emitterName = "*" \/ emitterName = key[1]
                          /\ eventName = "*" \/ eventName = key[3]
        IN  IF emitterName # "*" /\ eventName # "*"
            THEN RemoveBoth(R, listener, customEvent)
            ELSE RemoveEach(R, listener, {key \in DOMAIN R.subs : Match(key)})

\* the bucket objects something still refers to: _subs, or an _emit activation
\* (its variables subs, named_wildcard_subs, wildcard_named_subs, wildcard_wildcard_subs)
Reachable(sb, st) ==
    ({sb[k] : k \in DOMAIN sb} \cup {st[i].bk[j] : i \in DOMAIN st, j \in 1..4}) \ {0}

\* the bucket objects left once the unreachable ones are collected
Collect(bk, sb, st) == [id \in (DOMAIN bk) \cap Reachable(sb, st) |-> bk[id]]

\* --------------------------------------------------------------- definitions
\* an entry of _ce; defaultFn and preventedFn name the function, "undefined" when
\* the chain set none
NoDef ==
    [exists |-> FALSE, defaultFn |-> "undefined", preventedFn |-> "undefined",
     unHaltable |-> FALSE, unPreventable |-> FALSE, unSilencable |-> FALSE]

Def(defaultFn, preventedFn, unHaltable, unPreventable, unSilencable) ==
    [exists |-> TRUE, defaultFn |-> defaultFn, preventedFn |-> preventedFn,
     unHaltable |-> unHaltable, unPreventable |-> unPreventable,
     unSilencable |-> unSilencable]

\* the defineEvent chains the model makes
DefChains ==
    {Def("d", "p", FALSE, FALSE, FALSE),
     Def("d", "undefined", FALSE, FALSE, FALSE),
     Def("d", "p", TRUE, FALSE, FALSE),
     Def("d", "p", FALSE, TRUE, FALSE),
     Def("d", "p", FALSE, FALSE, TRUE)}

\* a second chain, with other functions and another flag
OtherDef == Def("d2", "p2", TRUE, FALSE, FALSE)

\* the keys _ce can get in this model
DefKeys == {RedSave, BlueLoad, UISave, UndefinedSave, RedAny}

\* the customEvent arguments of the model's defineEvent calls
DefineArgs == {RedSave}

\* ------------------------------------------------------------- event objects
NewStatus ==
    [ok |-> "undefined", halted |-> "undefined", defaultPrevented |-> "undefined",
     defaultPreventedContinue |-> "undefined", defaultFn |-> FALSE,
     preventedFn |-> FALSE, unSilencable |-> FALSE]

\* what the model notes about an emission beside the code's own state: the calls
\* user code made on the event object and on the registry while it ran, and how
\* many subscriber items had been created when it started
NoNotes ==
    [haltAt |-> 0, haltArg |-> "undefined", preventAt |-> 0, continueAt |-> 0,
     silenced |-> FALSE, changed |-> FALSE, items |-> 0]

\* one record of the invocation log of an emission
Invoked(kind, item, before, bi) ==
    [kind |-> kind, item |-> item, before |-> before, bi |-> bi]

HasColon(s) == \E i \in DOMAIN s : s[i] = ":"

\* src/event-base.js:802
Qualified(emitter, customEvent) ==
    IF HasColon(customEvent) THEN customEvent
    ELSE <<EmitterName(emitter), ":">> \o customEvent

\* The activation of _emit after lines 815-860: the event object e (status,
\* silent, _unHaltable, _unPreventable, target), the local variables
\* customEventDefinition (def) and subs, named_wildcard_subs, wildcard_named_subs,
\* wildcard_wildcard_subs (bk, in the order line 866 passes them), and where the
\* activation is: pc, the phase (before), the bucket bi, and the index k and the
\* length len of the Array.prototype.some call in progress.
\* The keys of the four buckets of an emission of emitterName:eventName, in the
\* order lines 866 and 886 pass them to _invokeSubs.
BucketKeysDeclared(emitterName, eventName) ==
    <<<<emitterName, ":", eventName>>, <<"*", ":", eventName>>,
      <<emitterName, ":", "*">>, AnyAny>>

BucketKeys(emitterName, eventName) ==
    <<<<emitterName, ":", eventName>>, <<emitterName, ":", "*">>,
      <<"*", ":", eventName>>, AnyAny>>

\* the arguments beforeSubscribers and afterSubscribers of _emit: the arrays, and
\* whether each was passed
NoOverride == [b |-> <<>>, a |-> <<>>, hasB |-> FALSE, hasA |-> FALSE]

StaysSilent(unSilencable, silent) == silent

\* e.silent after lines 856-859 and after lines 932-935
Unsilenced(unSilencable, silent) == IF unSilencable /\ silent THEN FALSE ELSE silent

NewFrame(emitter, customEvent, silent) ==
    LET extract == MatchCustomEvent(customEvent)
        def == ce[customEvent]
        Sub(key) == IF key \in DOMAIN subs THEN subs[key] ELSE 0
    IN  [topic |-> customEvent,
         target |-> emitter,
         def |-> def,
         bk |-> [i \in 1..4 |-> Sub(BucketKeys(extract[1], extract[2])[i])],
         status |-> [NewStatus EXCEPT !.unSilencable = def.exists /\ def.unSilencable],
         unPreventable |-> def.exists /\ def.unPreventable,
         unHaltable |-> def.exists /\ def.unHaltable,
         silent |-> Unsilenced(def.exists /\ def.unSilencable, silent),
         pc |-> "bucket", before |-> TRUE, bi |-> 1, k |-> 0, len |-> 0,
         cur |-> NoItem, log |-> <<>>, over |-> NoOverride,
         notes |-> [NoNotes EXCEPT !.silenced = silent, !.items = n.items]]

PassesThisAlways(subscriber, e) == TRUE

\* passesThis, src/event-base.js:925
PassesThis(subscriber, e) == ~subscriber.s \/ subscriber.o = e.target

OverriddenNever(f) == FALSE

\* the phase of activation f has an override list: lines 861, 881
Overridden(f) == IF f.before THEN f.over.hasB ELSE f.over.hasA

\* the _invokeSubs calls of the phase: one for an override list (lines 862,
\* 882), else one per bucket (lines 866, 886)
Buckets(f) == IF Overridden(f) THEN 1 ELSE 4

\* the argument subscribers of the _invokeSubs call is undefined, line 918
NoSubscribers(f) == ~Overridden(f) /\ f.bk[f.bi] = 0

\* subs of line 919: the override list, or the array of the bucket
SubsOf(f) ==
    IF Overridden(f) THEN (IF f.before THEN f.over.b ELSE f.over.a)
    ELSE Arr(buckets, f.bk[f.bi], f.before)

NextBucketSkipping(f) == [f EXCEPT !.pc = "bucket", !.bi = f.bi + 2]

\* the forEach of lines 866 and 886 goes on to its next element
NextBucket(f) == [f EXCEPT !.pc = "bucket", !.bi = f.bi + 1]

StopsSomeOnSilentOnly(f, silent) == silent

StopsSomeOnHaltOnly(f, silent) == f.before /\ Truthy(f.status.halted)

\* src/event-base.js:936, the value that ends the some() loop
StopsSome(f, silent) == silent \/ (f.before /\ Truthy(f.status.halted))

StatusOkUntouched(status) ==
    IF ~Truthy(status.halted) /\ ~Truthy(status.defaultPrevented)
       /\ ~Truthy(status.defaultPreventedContinue)
    THEN "true" ELSE "false"

StatusOkUnlessHalted(status) ==
    IF ~Truthy(status.halted) THEN "true" ELSE "false"

\* src/event-base.js:868
StatusOk(status) ==
    IF ~Truthy(status.halted) /\ ~Truthy(status.defaultPrevented) THEN "true" ELSE "false"

DefinitionInstalled(f) == ce[f.topic]

\* customEventDefinition, the variable _emit fills at line 819 and reads at
\* lines 873-877
CustomEventDefinition(f) == f.def

\* _emit from the point the activation ms.f is at, up to the next call of a user
\* callback (pc = "inCb", "inFn") or to its return statement (pc = "return").
\* ms carries what the run changes beside the activation: the timer queue and
\* the counts of once-callbacks run.
RECURSIVE Run(_)
Run(ms) ==
    LET f == ms.f
    IN  CASE f.pc = "bucket" ->
            \* lines 866, 886: forEach over the four buckets; line 918
            IF f.bi > Buckets(f)
            THEN Run([ms EXCEPT !.f.pc = IF f.before THEN "status" ELSE "return"])
            ELSE IF NoSubscribers(f) \/ Truthy(f.status.halted) \/ f.silent
            THEN Run([ms EXCEPT !.f = NextBucket(f)])
            ELSE Run([ms EXCEPT !.f.pc = "elem", !.f.k = 1,
                                !.f.len = Len(SubsOf(f))])
          [] f.pc = "elem" ->
            \* line 920: some() visits the indexes below the length it started
            \* with that are still in the array
            IF f.k > f.len
            THEN Run([ms EXCEPT !.f = NextBucket(f)])
            ELSE IF f.k > Len(SubsOf(f))
            THEN Run([ms EXCEPT !.f.k = f.k + 1])
            ELSE
            LET item == SubsOf(f)[f.k]
                log == Append(f.log, Invoked("sub", item, f.before, f.bi))
                h == item.cb.wrap
            IN  IF ~PassesThis(item, f)
                THEN Run([ms EXCEPT !.f.pc = "afterCb"])
                ELSE
                \* line 930; for a wrapperFn lines 423-425, 466-468
                IF h # 0 /\ ms.handles[h].detached
                THEN Run([ms EXCEPT !.f.log = log, !.f.pc = "afterCb",
                                    !.timers = Append(ms.timers, h)])
                ELSE [ms EXCEPT !.f.log = log, !.f.pc = "inCb", !.f.cur = item,
                                !.fired = IF h # 0 THEN [ms.fired EXCEPT ![h] = @ + 1]
                                          ELSE ms.fired]
          [] f.pc = "afterCb" ->
            \* lines 932-936
            LET silent == Unsilenced(f.status.unSilencable, f.silent)
                g == [f EXCEPT !.silent = silent, !.cur = NoItem]
            IN  IF StopsSome(f, silent)
                THEN Run([ms EXCEPT !.f = NextBucket(g)])
                ELSE Run([ms EXCEPT !.f = [g EXCEPT !.pc = "elem", !.k = f.k + 1]])
          [] f.pc = "status" ->
            \* lines 868-878
            LET st == [f.status EXCEPT !.ok = StatusOk(f.status)]
                prevented == Truthy(st.defaultPrevented) \/ Truthy(st.defaultPreventedContinue)
                def == CustomEventDefinition(f)
                fn == IF prevented THEN def.preventedFn ELSE def.defaultFn
            IN  IF def.exists /\ ~Truthy(st.halted) /\ fn # "undefined"
                THEN [ms EXCEPT
                        !.f.status = IF prevented THEN [st EXCEPT !.preventedFn = TRUE]
                                     ELSE [st EXCEPT !.defaultFn = TRUE],
                        !.f.pc = "inFn",
                        !.f.log = Append(f.log,
                                    Invoked(IF prevented THEN "preventedFn" ELSE "defaultFn",
                                            [NoItem EXCEPT !.cb = Cb(fn, 0)], FALSE, 0))]
                ELSE Run([ms EXCEPT !.f.status = st, !.f.pc = "afterFn"])
          [] f.pc = "afterFn" ->
            \* line 880
            IF Truthy(f.status.ok)
            THEN Run([ms EXCEPT !.f.pc = "bucket", !.f.before = FALSE, !.f.bi = 1])
            ELSE Run([ms EXCEPT !.f.pc = "return"])
          [] OTHER -> ms

\* -------------------------------------------------------------------- state
\* what the variable last holds after an emit call that returned (event: with an
\* event object, the activation f that ended), a handle.detach() call by user
\* code or by the timer task of handle h; after a defineEvent chain (event: with
\* forceAssign(), f: the chain, h: 0 when defineEvent returned undefined)
Done(op, event, topic, f, h) ==
    <<[op |-> op, event |-> event, topic |-> topic, f |-> f, h |-> h]>>

InitWith(limits) ==
    /\ lim = limits
    /\ subs = [k \in Keys |-> 0]
    /\ buckets = [id \in {} |-> EmptyBucket]
    /\ ce = [k \in DefKeys |-> NoDef]
    /\ running = {}
    /\ handles = <<>>
    /\ timers = <<>>
    /\ stack = <<>>
    /\ last = <<>>
    /\ fired = <<>>
    /\ notifiers = [k \in Keys |-> NoNotifier]
    /\ notified = <<>>
    /\ detachNotifiers = [k \in Keys |-> NoNotifier]
    /\ detachNotified = <<>>
    /\ n = [subs |-> 0, emits |-> 0, other |-> 0, items |-> 0]

\* every activation on the stack notes that the subscription registry changed
\* while it ran
NoteChanged(st, changed) ==
    [i \in DOMAIN st |-> [st[i] EXCEPT !.notes.changed = @ \/ changed]]

\* the registry as the operators above take it
Registry ==
    [subs |-> subs, buckets |-> buckets, items |-> n.items,
     call |-> Len(handles) + 1, out |-> Undefined,
     notifiers |-> notifiers, notified |-> notified,
     detachNotifiers |-> detachNotifiers, detachNotified |-> detachNotified]

\* the registry R becomes the state's
SetRegistry(R) ==
    /\ subs' = R.subs
    /\ stack' = NoteChanged(stack, R.subs # subs \/ R.buckets # buckets)
    /\ buckets' = Collect(R.buckets, R.subs, stack)
    /\ detachNotifiers' = R.detachNotifiers
    /\ detachNotified' = R.detachNotified

\* _addMultiSubs, lines 594-602: _addSubscriber for each customEvent of the
\* argument; RS = [R, outs] collects the handles' customEvents
RECURSIVE AddMultiSubs(_, _, _, _, _, _)
AddMultiSubs(RS, before, customEvents, callback, listener, prepend) ==
    IF customEvents = <<>> THEN RS
    ELSE LET R == AddSubscriber(RS.R, listener, before, Head(customEvents), callback, prepend)
         IN  AddMultiSubs([R |-> R, outs |-> Append(RS.outs, R.out)], before,
                          Tail(customEvents), callback, listener, prepend)

\* what user code can see of _subs: per key its two arrays, "none" without a
\* bucket
RegView ==
    [key \in Keys |-> IF subs[key] = 0 THEN <<"none">>
                      ELSE <<buckets[subs[key]].b, buckets[subs[key]].a>>]

\* the listener argument of a subscribe, detach or detachAll call, as the
\* variable last holds it; for a subscribe call with the registry it found
Call(listener, view) == <<[listener |-> listener, view |-> view]>>

\* the detach() of the handle: lines 604-610 and 728-730; the array subscribers
\* of line 597 holds what _addSubscriber returned for each customEvent, undefined
\* where it returned nothing
RECURSIVE DetachHandle(_, _, _)
DetachHandle(R, handle, i) ==
    IF i > Len(handle.ces) THEN R
    ELSE IF handle.ces[i] = Undefined
    THEN \* line 607: subscriber is undefined, subscriber.detach() throws a
         \* TypeError that ends the iteration and the call
         R
    ELSE DetachHandle(RemoveSubscriber(R, handle.listener, handle.before,
                                       handle.ces[i], handle.cb),
                      handle, i + 1)

\* ------------------------------------------------------------------ actions
\* before, after, onceBefore, onceAfter (once): a subscribe call of user code.
\* customEvents is the array passed; a call with one string that subscribe
\* accepts does what the call with the array of that string does.
Subscribe(before, customEvents, fn, listener, prepend, once) ==
    /\ n.subs < lim.subs
    /\ LET h == Len(handles) + 1
           cb == Cb(fn, IF once THEN h ELSE 0)
           RS == AddMultiSubs([R |-> Registry, outs |-> <<>>], before, customEvents,
                              cb, listener, prepend)
       IN  /\ SetRegistry(RS.R)
           /\ handles' = Append(handles, [listener |-> listener, before |-> before,
                                          ces |-> RS.outs, cb |-> cb,
                                          detached |-> FALSE,
                                          calls |-> 0])
           /\ fired' = Append(fired, 0)
           /\ notifiers' = RS.R.notifiers
           /\ notified' = RS.R.notified
           /\ n' = [n EXCEPT !.subs = @ + 1, !.items = RS.R.items]
    /\ last' = <<>>
    /\ UNCHANGED <<ce, running, timers, lim>>

\* before(customEvent, fn, listener, prepend) or after(...) with one string:
\* lines 83-85, 109-111 and 594-596; the call returns what _addSubscriber does
SubscribeOne(before, customEvent, fn, listener, prepend) ==
    /\ n.subs < lim.subs
    /\ LET h == Len(handles) + 1
           cb == Cb(fn, 0)
           R == AddSubscriber(Registry, listener, before, customEvent, cb, prepend)
           returns == R.out # Undefined
       IN  /\ SetRegistry(R)
           /\ handles' = IF returns
                         THEN Append(handles, [listener |-> listener, before |-> before,
                                               ces |-> <<R.out>>, cb |-> cb,
                                               detached |-> FALSE,
                                          calls |-> 0])
                         ELSE handles
           /\ fired' = IF returns THEN Append(fired, 0) ELSE fired
           /\ notifiers' = R.notifiers
           /\ notified' = R.notified
           /\ n' = [n EXCEPT !.subs = @ + 1, !.items = R.items]
           /\ last' = Done("subscribe", returns, customEvent, Call(listener, RegView),
                           IF returns THEN h ELSE 0)
    /\ UNCHANGED <<ce, running, timers, lim>>

\* detach(listener, customEvent), and detach(customEvent) when listener is
\* "null": lines 229-232
Detach(listener, customEvent) ==
    /\ n.other < lim.other
    /\ SetRegistry(RemoveSubscribers(Registry, listener, customEvent))
    /\ n' = [n EXCEPT !.other = @ + 1]
    /\ last' = Done("detachTopic", FALSE, customEvent, Call(listener, <<>>), 0)
    /\ UNCHANGED <<ce, running, handles, timers, fired, notifiers, notified, lim>>

\* detachAll(listener), and detachAll() when listener is "null": lines 242-255
DetachAll(listener) ==
    /\ n.other < lim.other
    /\ SetRegistry(IF listener # "null"
                   THEN RemoveSubscribers(Registry, listener, AnyAny)
                   ELSE [Registry EXCEPT !.subs = [key \in Keys |-> 0]])
    /\ n' = [n EXCEPT !.other = @ + 1]
    /\ last' = Done("detachAll", FALSE, Undefined, Call(listener, <<>>), 0)
    /\ UNCHANGED <<ce, running, handles, timers, fired, notifiers, notified, lim>>

\* notify(customEvent, callback, context, once) with one string, lines 336-349;
\* the callback only records that it was called
Notify(customEvent, once) ==
    /\ n.other < lim.other
    /\ notifiers' = [notifiers EXCEPT ![customEvent] = Notifier(once)]
    /\ n' = [n EXCEPT !.other = @ + 1]
    /\ last' = Done("notify", once, customEvent, <<>>, 0)
    /\ UNCHANGED <<subs, buckets, ce, running, handles, timers, stack, fired, notified,
                 detachNotifiers, detachNotified, lim>>

\* notifyDetach(customEvent, callback, context, once) with one string, lines
\* 373-386; the callback only records that it was called
NotifyDetach(customEvent, once) ==
    /\ n.other < lim.other
    /\ detachNotifiers' = [detachNotifiers EXCEPT ![customEvent] = Notifier(once)]
    /\ n' = [n EXCEPT !.other = @ + 1]
    /\ last' = Done("notifyDetach", once, customEvent, <<>>, 0)
    /\ UNCHANGED <<subs, buckets, ce, running, handles, timers, stack, fired, notifiers,
                 notified, detachNotified, lim>>

\* handle.detach() called by user code
HandleDetach(h) ==
    /\ n.other < lim.other
    /\ SetRegistry(DetachHandle(Registry, handles[h], 1))
    /\ handles' = [handles EXCEPT ![h].calls = 1]
    /\ n' = [n EXCEPT !.other = @ + 1]
    /\ last' = Done("detach", FALSE, Undefined, <<>>, h)
    /\ UNCHANGED <<ce, running, timers, fired, notifiers, notified, lim>>

RunTimerAnytime ==
    /\ timers # <<>>
    /\ SetRegistry(DetachHandle(Registry, handles[Head(timers)], 1))
    /\ timers' = Tail(timers)
    /\ last' = Done("timer", FALSE, Undefined, <<>>, Head(timers))
    /\ UNCHANGED <<ce, running, handles, fired, n, notifiers, notified, lim>>

\* the task of setTimeout(function() {handler.detach();}, 0), lines 425 and 468:
\* the event loop runs it when no JavaScript is on the stack
RunTimer ==
    /\ stack = <<>>
    /\ timers # <<>>
    /\ SetRegistry(DetachHandle(Registry, handles[Head(timers)], 1))
    /\ timers' = Tail(timers)
    /\ last' = Done("timer", FALSE, Undefined, <<>>, Head(timers))
    /\ UNCHANGED <<ce, running, handles, fired, n, notifiers, notified, lim>>

DefineEventAlways(customEvent, chain, force) ==
    /\ n.other < lim.other
    /\ ce' = IF MatchCustomEvent(customEvent) = Undefined THEN ce
             ELSE [ce EXCEPT ![customEvent] = chain]
    /\ n' = [n EXCEPT !.other = @ + 1]
    /\ last' = Done("define", force, customEvent, <<chain>>,
                    IF MatchCustomEvent(customEvent) = Undefined THEN 0 ELSE 1)
    /\ UNCHANGED <<subs, buckets, running, handles, timers, stack, fired, notifiers, notified, detachNotifiers,
                 detachNotified, lim>>

\* defineEvent(customEvent) followed by the chain's calls, with forceAssign()
\* among them when force
DefineEvent(customEvent, chain, force) ==
    /\ n.other < lim.other
    /\ ce' = IF MatchCustomEvent(customEvent) = Undefined THEN ce
             ELSE IF ce[customEvent].exists /\ ~force THEN ce
             ELSE [ce EXCEPT ![customEvent] = chain]
    /\ n' = [n EXCEPT !.other = @ + 1]
    /\ last' = Done("define", force, customEvent, <<chain>>,
                    IF MatchCustomEvent(customEvent) = Undefined THEN 0 ELSE 1)
    /\ UNCHANGED <<subs, buckets, running, handles, timers, stack, fired, notifiers, notified, detachNotifiers,
                 detachNotified, lim>>

\* Event.undefEvent(customEvent), lines 511-513
UndefEvent(customEvent) ==
    /\ n.other < lim.other
    /\ ce' = [ce EXCEPT ![customEvent] = NoDef]
    /\ n' = [n EXCEPT !.other = @ + 1]
    /\ last' = Done("undef", FALSE, customEvent, <<>>, 0)
    /\ UNCHANGED <<subs, buckets, running, handles, timers, stack, fired, notifiers, notified, detachNotifiers,
                 detachNotified, lim>>

\* The activation ms.f, run as far as it goes, lands on the stack st, or returns:
\* lines 890-891.
Land(ms, st) ==
    /\ timers' = ms.timers
    /\ fired' = ms.fired
    /\ IF ms.f.pc = "return"
       THEN /\ stack' = st
            /\ running' = running \ {ms.f.topic}
            /\ last' = Done("emit", TRUE, ms.f.topic, <<ms.f>>, 0)
            /\ buckets' = Collect(buckets, subs, st)
       ELSE /\ stack' = Append(st, ms.f)
            /\ running' = running \cup {ms.f.topic}
            /\ last' = <<>>
            /\ buckets' = buckets

NeverRunning(topic) == FALSE

RunningInnermost(topic) == stack # <<>> /\ stack[Len(stack)].topic = topic

\* instance._runningEvents[customEvent], src/event-base.js:811
IsRunning(topic) == topic \in running

\* emit(customEvent, payload) called by user code, the payload with silent or not
Emit(customEvent, silent) ==
    /\ n.emits < lim.emits
    /\ n' = [n EXCEPT !.emits = @ + 1]
    /\ LET topic == Qualified(Instance, customEvent)
       IN  IF MatchCustomEvent(topic) = Undefined \/ IsRunning(topic)
           THEN \* lines 805-808, 811-814
                /\ last' = Done("emit", FALSE, topic, <<>>, 0)
                /\ UNCHANGED <<buckets, running, timers, stack, fired>>
           ELSE Land(Run([f |-> NewFrame(Instance, topic, silent), timers |-> timers,
                          handles |-> handles, fired |-> fired]),
                     stack)
    /\ UNCHANGED <<subs, ce, handles, notifiers, notified, detachNotifiers,
                 detachNotified, lim>>

\* emit(emitter, customEvent, payload) called by user code with an emitter
\* object: lines 302-312 without the swap of 304-309
EmitBy(emitter, customEvent, silent) ==
    /\ n.emits < lim.emits
    /\ n' = [n EXCEPT !.emits = @ + 1]
    /\ LET topic == Qualified(emitter, customEvent)
       IN  IF MatchCustomEvent(topic) = Undefined \/ IsRunning(topic)
           THEN /\ last' = Done("emit", FALSE, topic, <<>>, 0)
                /\ UNCHANGED <<buckets, running, timers, stack, fired>>
           ELSE Land(Run([f |-> NewFrame(emitter, topic, silent), timers |-> timers,
                          handles |-> handles, fired |-> fired]),
                     stack)
    /\ UNCHANGED <<subs, ce, handles, notifiers, notified, detachNotifiers,
                 detachNotified, lim>>

\* a subscriber {o: Event, cb: fn} as privileged callers build them; the items
\* of override lists are numbered below zero
Override(i, before) == [Item(0 - i, Instance, Cb("g", 0), <<>>, before, 0) EXCEPT !.s = FALSE]

\* the override lists the model passes: none (null), an empty one, one of two
\* subscribers
OverrideLists(before) ==
    {[passed |-> FALSE, list |-> <<>>], [passed |-> TRUE, list |-> <<>>],
     [passed |-> TRUE, list |-> <<Override(1, before), Override(2, before)>>]}

\* Event._emit(Event, customEvent, null, beforeSubscribers, afterSubscribers)
\* called by privileged code, lines 793-892
EmitPrivileged(customEvent, beforeSubscribers, afterSubscribers) ==
    /\ n.emits < lim.emits
    /\ n' = [n EXCEPT !.emits = @ + 1]
    /\ LET topic == Qualified(Instance, customEvent)
           over == [b |-> beforeSubscribers.list, a |-> afterSubscribers.list,
                    hasB |-> beforeSubscribers.passed, hasA |-> afterSubscribers.passed]
       IN  IF MatchCustomEvent(topic) = Undefined \/ IsRunning(topic)
           THEN /\ last' = Done("emit", FALSE, topic, <<>>, 0)
                /\ UNCHANGED <<buckets, running, timers, stack, fired>>
           ELSE Land(Run([f |-> [NewFrame(Instance, topic, FALSE) EXCEPT !.over = over],
                          timers |-> timers, handles |-> handles, fired |-> fired]),
                     stack)
    /\ UNCHANGED <<subs, ce, handles, notifiers, notified, detachNotifiers,
                   detachNotified, lim>>

Top == stack[Len(stack)]

\* the callback that has control returns
Return ==
    /\ stack # <<>>
    /\ LET f == Top
           h == f.cur.cb.wrap
           once == f.pc = "inCb" /\ h # 0
           hs == IF once THEN [handles EXCEPT ![h].detached = TRUE] ELSE handles
       IN  /\ handles' = hs
           /\ Land(Run([f |-> [f EXCEPT !.pc = IF f.pc = "inCb" THEN "afterCb" ELSE "afterFn"],
                        timers |-> IF once THEN Append(timers, h) ELSE timers,
                        handles |-> hs, fired |-> fired]),
                   SubSeq(stack, 1, Len(stack) - 1))
    /\ UNCHANGED <<subs, ce, n, notifiers, notified, detachNotifiers,
                 detachNotified, lim>>

\* the callback that has control throws: _emit has no try, the exception leaves
\* the activation, and the caller of emit (user code again) has control
Throw ==
    /\ stack # <<>>
    /\ n.other < lim.other
    /\ n' = [n EXCEPT !.other = @ + 1]
    /\ stack' = SubSeq(stack, 1, Len(stack) - 1)
    /\ buckets' = Collect(buckets, subs, stack')
    /\ last' = <<>>
    /\ UNCHANGED <<subs, ce, running, handles, timers, fired, notifiers, notified, detachNotifiers,
                 detachNotified, lim>>

RefusesWhenFlagged(ok, un) == un

RefusesOnceOk(ok, un) == Truthy(ok)

\* this.status.ok || this._unHaltable (this._unPreventable): what keeps halt,
\* preventDefault and preventDefaultContinue from setting their field, lines
\* 1243-1245
Refuses(ok, un) == Truthy(ok) \/ un

\* e.halt(reason) called by the callback that has control, line 1243
Halt(reason) ==
    /\ stack # <<>>
    /\ LET f == Top
           acts == ~Refuses(f.status.ok, f.unHaltable)
           noted == f.pc = "inCb" /\ f.before /\ ~f.unHaltable
           g == [f EXCEPT !.status.halted = IF acts THEN OrTrue(reason) ELSE @,
                          !.notes.haltAt = IF noted /\ @ = 0 THEN Len(f.log) ELSE @,
                          !.notes.haltArg = IF noted THEN reason ELSE @]
       IN  stack' = [stack EXCEPT ![Len(stack)] = g]
    /\ last' = Done("halt", FALSE, Undefined, <<>>, 0)
    /\ UNCHANGED <<subs, buckets, ce, running, handles, timers, fired, n, notifiers, notified, detachNotifiers,
                 detachNotified, lim>>

\* e.preventDefault(reason) called by the callback that has control, line 1244
PreventDefault(reason) ==
    /\ stack # <<>>
    /\ LET f == Top
           acts == ~Refuses(f.status.ok, f.unPreventable)
           noted == f.pc = "inCb" /\ f.before /\ ~f.unPreventable
           g == [f EXCEPT !.status.defaultPrevented = IF acts THEN OrTrue(reason) ELSE @,
                          !.notes.preventAt = IF noted /\ @ = 0 THEN Len(f.log) ELSE @]
       IN  stack' = [stack EXCEPT ![Len(stack)] = g]
    /\ last' = Done("preventDefault", FALSE, Undefined, <<>>, 0)
    /\ UNCHANGED <<subs, buckets, ce, running, handles, timers, fired, n, notifiers, notified, detachNotifiers,
                 detachNotified, lim>>

\* e.preventDefaultContinue(reason) called by the callback that has control,
\* line 1245
PreventDefaultContinue(reason) ==
    /\ stack # <<>>
    /\ LET f == Top
           acts == ~Refuses(f.status.ok, f.unPreventable)
           noted == f.pc = "inCb" /\ f.before /\ ~f.unPreventable
           g == [f EXCEPT !.status.defaultPreventedContinue =
                              IF acts THEN OrTrue(reason) ELSE @,
                          !.notes.continueAt = IF noted /\ @ = 0 THEN Len(f.log) ELSE @]
       IN  stack' = [stack EXCEPT ![Len(stack)] = g]
    /\ last' = Done("preventDefaultContinue", FALSE, Undefined, <<>>, 0)
    /\ UNCHANGED <<subs, buckets, ce, running, handles, timers, fired, n, notifiers, notified, detachNotifiers,
                 detachNotified, lim>>

\* e.silent = true set by the callback that has control
SetSilent ==
    /\ stack # <<>>
    /\ stack' = [stack EXCEPT ![Len(stack)].silent = TRUE,
                              ![Len(stack)].notes.silenced = TRUE]
    /\ last' = <<>>
    /\ UNCHANGED <<subs, buckets, ce, running, handles, timers, fired, n, notifiers, notified, detachNotifiers,
                 detachNotified, lim>>

\* e.silent = true set by the subscriber that has control
SubscriberSetsSilent ==
    /\ stack # <<>>
    /\ Top.pc = "inCb"
    /\ SetSilent

\* ----------------------------------------------------------- specifications
\* Dispatch: plain subscriptions on every key, one definition, emissions of two
\* topics (nested ones too), subscribers that halt, prevent and silence.
InitDispatch ==
    InitWith([subs |-> DispatchSubs, emits |-> DispatchEmits, other |-> DispatchOther])

NextDispatch ==
    \/ \E before \in BOOLEAN, customEvents \in SubscribeArgs :
          Subscribe(before, customEvents, "f", "null", FALSE, FALSE)
    \/ \E chain \in DefChains : DefineEvent(RedSave, chain, FALSE)
    \/ \E customEvent \in {RedSave, BlueLoad}, silent \in BOOLEAN : Emit(customEvent, silent)
    \/ Return
    \/ \E reason \in Reasons : Halt(reason)
    \/ PreventDefault("undefined")
    \/ SetSilent

SpecDispatch == InitDispatch /\ [][NextDispatch]_vars

\* the array of the four keys that match red:save
AllFour == <<RedSave, RedAny, AnySave, AnyAny>>

\* Guard: emits from inside callbacks, to any depth, of valid and malformed
\* topics, and callbacks that throw.
InitGuard ==
    InitWith([subs |-> GuardSubs, emits |-> GuardEmits, other |-> GuardOther])

NextGuard ==
    \/ \E before \in BOOLEAN, customEvents \in {<<RedSave>>, <<AnyAny>>, AllFour} :
          Subscribe(before, customEvents, "f", "null", FALSE, FALSE)
    \/ DefineEvent(RedSave, Def("d", "p", FALSE, FALSE, FALSE), FALSE)
    \/ \E customEvent \in EmitArgs : Emit(customEvent, FALSE)
    \/ Return
    \/ Throw

SpecGuard == InitGuard /\ [][NextGuard]_vars

\* Once: once- and plain subscriptions of two owners, their handles detached by
\* user code and by the timer tasks, emissions back to back and nested.
InitOnce ==
    InitWith([subs |-> OnceSubs, emits |-> OnceEmits, other |-> OnceOther])

NextOnce ==
    \/ \E before \in BOOLEAN, customEvents \in {<<RedSave>>, <<AnyAny>>, AllFour},
          listener \in Listeners, once \in BOOLEAN :
          Subscribe(before, customEvents, "f", listener, FALSE, once)
    \/ \E h \in DOMAIN handles : HandleDetach(h)
    \/ RunTimer
    \/ \E customEvent \in {RedSave, BlueLoad} : Emit(customEvent, FALSE)
    \/ Return

SpecOnce == InitOnce /\ [][NextOnce]_vars

\* ------------------------------------------------------------------ claims
\* Detach: subscriptions of two owners by full and bare topic strings and by
\* once-arrays, removed by handle, by owner and topic, by owner, all at once, and
\* by the timer tasks; from inside callbacks too.
InitDetach ==
    InitWith([subs |-> DetachSubs, emits |-> DetachEmits, other |-> DetachOther])

NextDetach ==
    \/ \E before \in BOOLEAN, customEvent \in {RedSave, Save, AnySave},
          listener \in Listeners :
          SubscribeOne(before, customEvent, "f", listener, FALSE)
    \/ \E listener \in Listeners : Subscribe(TRUE, AllFour, "f", listener, FALSE, TRUE)
    \/ \E h \in DOMAIN handles : HandleDetach(h)
    \/ RunTimer
    \/ \E listener \in Listeners, customEvent \in {RedSave, Save, AnySave, AnyAny} :
          Detach(listener, customEvent)
    \/ \E listener \in Listeners : DetachAll(listener)
    \/ Emit(RedSave, FALSE)
    \/ Return

SpecDetach == InitDetach /\ [][NextDetach]_vars

\* Topics: topic strings of every shape (full, bare, with a wildcard, malformed)
\* given to subscribe, defineEvent and emit, with notifiers and two definition
\* chains, installed with and without forceAssign().
InitTopics ==
    InitWith([subs |-> TopicsSubs, emits |-> TopicsEmits, other |-> TopicsOther])

NextTopics ==
    \/ \E before \in BOOLEAN, customEvent \in {RedSave, Save} \cup Malformed :
          SubscribeOne(before, customEvent, "f", "null", FALSE)
    \/ \E customEvent \in {RedSave, AnyAny}, once \in BOOLEAN : Notify(customEvent, once)
    \/ \E customEvent \in {RedSave, RedAny, ColonSave},
          chain \in {Def("d", "p", FALSE, FALSE, FALSE), OtherDef}, force \in BOOLEAN :
          DefineEvent(customEvent, chain, force)
    \/ \E customEvent \in {RedSave, Save, RedAny, StarRedSave} : Emit(customEvent, FALSE)
    \/ Return
    \/ Halt("undefined")
    \/ PreventDefault("undefined")

SpecTopics == InitTopics /\ [][NextTopics]_vars

\* the emit call that returned in the last step returned an event object
Returned == last # <<>> /\ last[1].op = "emit" /\ last[1].event

\* the emission that returned it
RetFrame == last[1].f[1]

\* the emissions in progress, and the one that just returned
Emissions ==
    {stack[i] : i \in DOMAIN stack} \cup (IF Returned THEN {RetFrame} ELSE {})

\* the subscriber items in the registry
Registered ==
    UNION {{buckets[subs[key]].b[i] : i \in DOMAIN buckets[subs[key]].b}
           \cup {buckets[subs[key]].a[i] : i \in DOMAIN buckets[subs[key]].a}
           : key \in {k \in Keys : subs[k] # 0}}

\* key is topic e:t itself, *:t, e:* or *:*
Matches(key, topic) == key[1] \in {topic[1], "*"} /\ key[3] \in {topic[3], "*"}

\* the places in the log of emission f where item was invoked
Invocations(f, item) ==
    {i \in DOMAIN f.log : f.log[i].kind = "sub" /\ f.log[i].item.id = item.id}

\* the places in the log of f where defaultFn or preventedFn was invoked
FnInvocations(f) == {i \in DOMAIN f.log : f.log[i].kind # "sub"}

\* 1: a before-subscriber, 2: defaultFn or preventedFn, 3: an after-subscriber
PhaseRank(entry) ==
    IF entry.kind # "sub" THEN 2 ELSE IF entry.item.before THEN 1 ELSE 3

\* C1: in every emission the invocations come in the order before-subscribers,
\* then defaultFn or preventedFn (at most one invocation), then after-subscribers.
C1_PhaseOrder ==
    \A f \in Emissions :
        /\ \A i, j \in DOMAIN f.log : i < j => PhaseRank(f.log[i]) <= PhaseRank(f.log[j])
        /\ Cardinality(FnInvocations(f)) <= 1

\* an emission returned after invoking a before-subscriber, the defaultFn and an
\* after-subscriber
C1_Witness ==
    /\ Returned
    /\ \E i, j, k \in DOMAIN RetFrame.log :
          /\ PhaseRank(RetFrame.log[i]) = 1
          /\ RetFrame.log[j].kind = "defaultFn"
          /\ PhaseRank(RetFrame.log[k]) = 3

\* every record on a key matching the topic was invoked exactly once, in its
\* phase, and no other record was invoked
EachMatchingOnce(f) ==
    \A item \in Registered :
        IF Matches(item.key, f.topic)
        THEN /\ Cardinality(Invocations(f, item)) = 1
             /\ \A i \in Invocations(f, item) : f.log[i].before = item.before
        ELSE Invocations(f, item) = {}

\* C2 as claimed: an emission that returned, was neither halted nor silenced and
\* during which the registry did not change invoked every matching record exactly
\* once in its phase and no other record.
C2_Original ==
    (Returned /\ ~Truthy(RetFrame.status.halted) /\ ~RetFrame.notes.silenced
              /\ ~RetFrame.notes.changed)
        => EachMatchingOnce(RetFrame)

\* C2, amended: the same for an emission that was not default-prevented either
\* (after-subscribers are not invoked when status.ok is false).
C2_EachMatchingOnce ==
    (Returned /\ ~Truthy(RetFrame.status.halted) /\ ~RetFrame.notes.silenced
              /\ ~RetFrame.notes.changed
              /\ ~Truthy(RetFrame.status.defaultPrevented))
        => EachMatchingOnce(RetFrame)

\* an emission of red:save returned with records on all four matching keys
\* invoked and a record on blue:load registered
C2_Witness ==
    /\ Returned
    /\ RetFrame.topic = RedSave
    /\ ~RetFrame.notes.changed
    /\ \A key \in {RedSave, RedAny, AnySave, AnyAny} :
          \E i \in DOMAIN RetFrame.log : RetFrame.log[i].item.key = key
    /\ \E item \in Registered : item.key = BlueLoad

\* the place of a record's key among the buckets of topic, as claimed:
\* e:t, *:t, e:*, *:*
ClaimedRank(key, topic) ==
    IF key = topic THEN 1 ELSE IF key[1] = "*" /\ key[3] # "*" THEN 2
    ELSE IF key[3] = "*" /\ key[1] # "*" THEN 3 ELSE 4

\* the same for the order e:t, e:*, *:t, *:*
EmitterFirstRank(key, topic) ==
    IF key = topic THEN 1 ELSE IF key[3] = "*" /\ key[1] # "*" THEN 2
    ELSE IF key[1] = "*" /\ key[3] # "*" THEN 3 ELSE 4

\* the invocations of subscribers of one phase, in the log of f
SamePhase(f, i, j) ==
    f.log[i].kind = "sub" /\ f.log[j].kind = "sub" /\ f.log[i].before = f.log[j].before

\* C3 as claimed: within a phase, subscribers are invoked in the bucket order
\* e:t, *:t, e:*, *:*.
C3_Original ==
    \A f \in Emissions : \A i, j \in DOMAIN f.log :
        (i < j /\ SamePhase(f, i, j))
            => ClaimedRank(f.log[i].item.key, f.topic) <= ClaimedRank(f.log[j].item.key, f.topic)

\* C3, amended: within a phase, subscribers are invoked in the bucket order
\* e:t, e:*, *:t, *:* (the emitter's wildcard-event bucket before the wildcard-
\* emitter bucket).
C3_BucketOrder ==
    \A f \in Emissions : \A i, j \in DOMAIN f.log :
        (i < j /\ SamePhase(f, i, j))
            => EmitterFirstRank(f.log[i].item.key, f.topic)
                 <= EmitterFirstRank(f.log[j].item.key, f.topic)

\* an emission invoked, in one phase, subscribers of all four buckets
C3_Witness ==
    /\ Returned
    /\ \E before \in BOOLEAN : \A r \in 1..4 :
          \E i \in DOMAIN RetFrame.log :
              /\ RetFrame.log[i].kind = "sub"
              /\ RetFrame.log[i].before = before
              /\ EmitterFirstRank(RetFrame.log[i].item.key, RetFrame.topic) = r

PreventedOutcome(f) ==
    /\ \A item \in Registered :
          (item.before /\ Matches(item.key, f.topic)) => Cardinality(Invocations(f, item)) = 1
    /\ \E i \in DOMAIN f.log : f.log[i].kind = "preventedFn"
    /\ \A i \in DOMAIN f.log : f.log[i].kind # "defaultFn"
    /\ f.status.preventedFn
    /\ f.status.ok = "false"
    /\ \A i \in DOMAIN f.log : PhaseRank(f.log[i]) # 3

\* a before-subscriber called preventDefault() on a preventable topic with a
\* definition, nobody halted, and the registry did not change
PreventedCase(f) ==
    /\ f.notes.preventAt > 0
    /\ f.def.exists
    /\ ~Truthy(f.status.halted)
    /\ ~f.notes.changed

\* C5 as claimed
C5_Original ==
    (Returned /\ PreventedCase(RetFrame)) => PreventedOutcome(RetFrame)

\* C5, amended: the same when the definition has a preventedFn and the event is
\* not silenced.
C5_Prevented ==
    (Returned /\ PreventedCase(RetFrame) /\ RetFrame.def.preventedFn # "undefined"
              /\ ~RetFrame.notes.silenced)
        => PreventedOutcome(RetFrame)

\* an emission returned in which the first before-subscriber prevented the
\* default, a later one was invoked, and an after-subscriber is registered
C5_Witness ==
    /\ Returned
    /\ PreventedCase(RetFrame)
    /\ RetFrame.def.preventedFn # "undefined"
    /\ ~RetFrame.notes.silenced
    /\ RetFrame.notes.preventAt = 1
    /\ \E i \in DOMAIN RetFrame.log : i > 1 /\ PhaseRank(RetFrame.log[i]) = 1
    /\ \E item \in Registered : ~item.before /\ Matches(item.key, RetFrame.topic)

\* the topics whose emission is in progress
InProgress == {stack[i].topic : i \in DOMAIN stack}

\* this step is a call of emit, and the topic it emits
EmitStep == n'.emits = n.emits + 1
Emitted == IF last' # <<>> THEN last'[1].topic ELSE stack'[Len(stack')].topic

\* C6: an emit of a topic whose emission is in progress, at whatever depth and
\* however often, invokes nothing, returns undefined and leaves the emissions in
\* progress as they are; an emission that returns with the registry unchanged
\* has invoked every matching record once, whatever emits its callbacks tried.
C6_Reentrant ==
    [][/\ (EmitStep /\ Emitted \in InProgress) =>
             /\ last' = Done("emit", FALSE, Emitted, <<>>, 0)
             /\ stack' = stack
             /\ fired' = fired
             /\ timers' = timers
             /\ running' = running
             /\ subs' = subs /\ buckets' = buckets
       /\ (Returned' /\ ~RetFrame'.notes.changed) => EachMatchingOnce(RetFrame)'
      ]_vars

\* a subscriber of red:save emitted blue:load, whose subscriber emitted
\* red:save: that emit has just returned undefined
C6_Witness ==
    /\ last = Done("emit", FALSE, RedSave, <<>>, 0)
    /\ Len(stack) = 2
    /\ stack[1].topic = RedSave /\ stack[2].topic = BlueLoad
    /\ stack[1].pc = "inCb" /\ stack[2].pc = "inCb"
    /\ n.emits = 3

\* C7 as claimed: the re-entrancy guard holds exactly the topics whose emission
\* is in progress.
C7_GuardExact == running = InProgress

\* C8 as claimed: the callback of a once-subscription is invoked at most once.
C8_AtMostOnce == \A h \in DOMAIN fired : fired[h] <= 1

\* the records of the subscription that returned handle h
ItemsOf(h) == {item \in Registered : item.call = h}

\* the wrapper of once-handle h was invoked in an emission that is in progress
FiredInProgress(h) ==
    \E i \in DOMAIN stack : \E j \in DOMAIN stack[i].log :
        stack[i].log[j].kind = "sub" /\ stack[i].log[j].item.cb.wrap = h

\* this step is handle h's detach(), called by user code; by its timer task
UserDetach(h) == last' = Done("detach", FALSE, Undefined, <<>>, h)
TimerDetach(h) == last' = Done("timer", FALSE, Undefined, <<>>, h)

C10_DetachExactlyOne ==
    [][\A h \in DOMAIN handles :
          (UserDetach(h) \/ TimerDetach(h)) => Registered' = Registered \ ItemsOf(h)
      ]_vars

\* the operations that remove subscriber records
Removals == {"detach", "timer", "detachTopic", "detachAll"}

\* C11: every key present in the subscription registry has at least one
\* subscriber record in its before or after array.
C11_NoEmptyBucket ==
    \A key \in Keys :
        subs[key] # 0 => Len(buckets[subs[key]].b) + Len(buckets[subs[key]].a) > 0

\* a removal has just taken the last record of a key some subscribe call had
\* created, and the key with it, while another key still has records
C11_Witness ==
    /\ last # <<>> /\ last[1].op \in Removals
    /\ \E h \in DOMAIN handles : \E i \in DOMAIN handles[h].ces :
          subs[handles[h].ces[i]] = 0
    /\ \E key \in Keys : subs[key] # 0

\* C12 as claimed: an emit call returns undefined exactly when its topic is
\* malformed or an emission of the topic is in progress; every other emit call
\* is dispatched and returns an event object.
C12_ReturnsEvent ==
    [][EmitStep =>
         /\ (last' # <<>> /\ ~last'[1].event)
               <=> (MatchCustomEvent(Emitted) = Undefined \/ Emitted \in InProgress)
         /\ (last' = <<>>) => Len(stack') = Len(stack) + 1
      ]_vars

\* the places in the log of f where the function of that kind was invoked
FnOfKind(f, kind) == {i \in DOMAIN f.log : f.log[i].kind = kind}

\* C13: in an emission at most one of defaultFn and preventedFn is invoked, and
\* only when the emitted topic itself has a definition and no before-subscriber
\* halted the event; status.defaultFn (status.preventedFn) is set exactly when
\* defaultFn (preventedFn) was invoked, and neither without a definition.
C13_DefaultOrPrevented ==
    \A f \in Emissions :
        /\ Cardinality(FnInvocations(f)) <= 1
        /\ FnInvocations(f) # {} =>
              (f.def.exists /\ ce[f.topic].exists /\ f.notes.haltAt = 0)
        /\ f.status.defaultFn <=> FnOfKind(f, "defaultFn") # {}
        /\ f.status.preventedFn <=> FnOfKind(f, "preventedFn") # {}
        /\ ~f.def.exists => (~f.status.defaultFn /\ ~f.status.preventedFn)

\* an emission of the defined topic returned after its preventedFn, and not its
\* defaultFn, was invoked
C13_Witness ==
    /\ Returned
    /\ RetFrame.def.exists
    /\ FnOfKind(RetFrame, "preventedFn") # {}
    /\ RetFrame.status.preventedFn /\ ~RetFrame.status.defaultFn
    /\ RetFrame.status.ok = "false"

\* the number of subscriber invocations of emission f
SubCount(f) == Cardinality({i \in DOMAIN f.log : f.log[i].kind = "sub"})

\* the emission is silent, and can be
Silent(f) == f.silent /\ ~f.status.unSilencable

\* what C14 says of the default phase of a returned silent emission f that no
\* before-subscriber halted: the function that applies, if the definition has
\* it, was invoked, and status.ok is as without silence
SilentOutcome(f) ==
    LET prevented == Truthy(f.status.defaultPrevented)
        fn == IF prevented THEN f.def.preventedFn ELSE f.def.defaultFn
        kind == IF prevented THEN "preventedFn" ELSE "defaultFn"
    IN  /\ (f.def.exists /\ fn # "undefined") =>
              \E i \in FnOfKind(f, kind) : f.log[i].item.cb.fn = fn
        /\ f.status.ok = IF prevented THEN "false" ELSE "true"

\* C14: on a topic that is not unSilencable, an emission whose event.silent is
\* true (from the payload, or set by a callback) invokes no further subscriber,
\* in any bucket of either phase; its defaultFn or preventedFn is invoked all
\* the same and status.ok is computed as usual.
C14_Silent ==
    [][/\ \A i \in DOMAIN stack :
             Silent(stack[i]) =>
                 /\ i <= Len(stack') => SubCount(stack'[i]) = SubCount(stack[i])
                 /\ (i > Len(stack') /\ Returned') => SubCount(RetFrame') = SubCount(stack[i])
       /\ (EmitStep /\ Len(stack') > Len(stack) /\ Silent(stack'[Len(stack')]))
             => SubCount(stack'[Len(stack')]) = 0
       /\ (EmitStep /\ Returned' /\ Silent(RetFrame')) => SubCount(RetFrame') = 0
       /\ (Returned' /\ Silent(RetFrame') /\ RetFrame'.notes.haltAt = 0)
             => SilentOutcome(RetFrame')
      ]_vars

\* an emission of the defined topic returned: its first before-subscriber set
\* event.silent, no other subscriber was invoked although before- and
\* after-subscribers are registered, and the defaultFn was invoked
C14_Witness ==
    /\ Returned
    /\ Silent(RetFrame)
    /\ SubCount(RetFrame) = 1
    /\ RetFrame.log[1].kind = "sub" /\ RetFrame.log[1].before
    /\ FnOfKind(RetFrame, "defaultFn") # {}
    /\ RetFrame.status.ok = "true"
    /\ \E item \in Registered : /\ item.before /\ Matches(item.key, RetFrame.topic)
                                /\ item.id # RetFrame.log[1].item.id
    /\ \E item \in Registered : ~item.before /\ Matches(item.key, RetFrame.topic)

\* the last step was a call of that operation
Did(op) == last # <<>> /\ last[1].op = op

\* the string is a topic emitter:event without wildcard; it is one that subscribe
\* accepts: emitter:event with either part possibly "*", or a bare event name
Concrete(s) == Len(s) = 3 /\ s[1] \in Words /\ s[2] = ":" /\ s[3] \in Words
Subscribable(s) ==
    \/ Len(s) = 3 /\ s[1] \in Words \cup {"*"} /\ s[2] = ":" /\ s[3] \in Words \cup {"*"}
    \/ Len(s) = 1 /\ s[1] \in Words \cup {"*"}

\* emission f runs with the functions and flags of the definition it found:
\* the function it invoked is that definition's, the event's flags are its flags
UsesItsDef(f) ==
    /\ \A i \in FnOfKind(f, "defaultFn") : f.log[i].item.cb.fn = f.def.defaultFn
    /\ \A i \in FnOfKind(f, "preventedFn") : f.log[i].item.cb.fn = f.def.preventedFn
    /\ f.unHaltable = (f.def.exists /\ f.def.unHaltable)
    /\ f.unPreventable = (f.def.exists /\ f.def.unPreventable)

\* C15: a defineEvent chain for a topic that has a definition leaves _ce as it
\* is unless the chain calls forceAssign(), and then the chain's definition
\* replaces the installed one; an emission runs with the definition installed
\* when it starts.
C15_Redefine ==
    [][/\ (Did("define")' /\ Concrete(last'[1].topic)) =>
             ce' = IF ce[last'[1].topic].exists /\ ~last'[1].event THEN ce
                   ELSE [ce EXCEPT ![last'[1].topic] = last'[1].f[1]]
       /\ (EmitStep /\ Len(stack') > Len(stack)) =>
             stack'[Len(stack')].def = ce[stack'[Len(stack')].topic]
       /\ (EmitStep /\ Returned') => RetFrame'.def = ce[RetFrame'.topic]
       /\ \A f \in Emissions' : UsesItsDef(f)
      ]_vars

\* a defineEvent chain without forceAssign() has just been made for a topic
\* whose installed definition has other functions: that one is still installed
C15_Witness ==
    /\ Did("define")
    /\ ~last[1].event
    /\ Concrete(last[1].topic)
    /\ ce[last[1].topic].exists
    /\ ce[last[1].topic].defaultFn # last[1].f[1].defaultFn

\* the registries, the re-entrancy guard, the emissions in progress and the
\* notifier invocations are as they were
NothingDone ==
    UNCHANGED <<subs, buckets, ce, notifiers, notified, detachNotifiers,
                 detachNotified, running, stack, handles,
                timers, fired>>

\* C16: subscribe, defineEvent and emit called with a malformed topic (for
\* defineEvent and emit a topic with a wildcard too) return undefined, invoke no
\* subscriber, notifier or default function and leave the subscription,
\* definition and notifier registries and the re-entrancy guard unchanged.
C16_Malformed ==
    [][/\ (Did("subscribe")' /\ ~Subscribable(last'[1].topic))
             => (~last'[1].event /\ NothingDone)
       /\ (Did("define")' /\ ~Concrete(last'[1].topic))
             => (last'[1].h = 0 /\ NothingDone)
       /\ (EmitStep /\ ~Concrete(Emitted))
             => (Did("emit")' /\ ~last'[1].event /\ NothingDone)
      ]_vars

\* a subscribe call with a malformed topic has just returned undefined, with
\* a notifier on *:*, a definition and a subscriber record in place
C16_Witness ==
    /\ Did("subscribe")
    /\ last[1].topic \in Malformed
    /\ ~last[1].event
    /\ notifiers[AnyAny].set
    /\ ce[RedSave].exists
    /\ Registered # {}

\* C19 as claimed: an emit of the bare event name 'save' by the Event object is
\* dispatched as topic UI:save, and so invokes a subscriber that was registered
\* with the bare name.
C19_BareName ==
    [][(Emit(Save, FALSE) /\ running = {}) =>
          /\ Emitted = UISave
          /\ (\E item \in Registered : item.key = UISave) =>
                 (Len(stack') = Len(stack) + 1 /\ stack'[Len(stack')].cur.key = UISave)
      ]_vars

\* the listener argument of the call that last holds
Listener(l) == l[1].f[1].listener

\* C17 as claimed: detach(topic) without an owner removes every subscriber
\* record registered on that topic, whatever its owner.
C17_DetachTopic ==
    [][(Did("detachTopic")' /\ Listener(last') = "null" /\ last'[1].topic \in Keys)
          => \A item \in Registered' : item.key # last'[1].topic
      ]_vars

\* owner has a record in view v (the two arrays of a key, or <<"none">>)
Owns(owner, v) ==
    /\ Len(v) = 2
    /\ \E k \in 1..2 : \E i \in DOMAIN v[k] : v[k][i].o = owner

\* C18 as claimed: an owner with no records subscribes to a topic string that
\* subscribe accepts (a bare event name too) and then calls detach(owner, topic)
\* with the same string: the subscription registry is as before the subscribe.
C18_SubscribeDetach ==
    [][(/\ Did("subscribe") /\ last[1].event
        /\ Listener(last) # "null"
        /\ \A key \in Keys : ~Owns(Listener(last), last[1].f[1].view[key])
        /\ Did("detachTopic")'
        /\ last'[1].topic = last[1].topic
        /\ Listener(last') = Listener(last))
          => RegView' = last[1].f[1].view
      ]_vars

\* the view v of a key without the records of owner
Without(v, owner) ==
    IF Len(v) # 2 THEN v
    ELSE LET Stays(item) == item.o # owner
             b == SelectSeq(v[1], Stays)
             a == SelectSeq(v[2], Stays)
         IN  IF b = <<>> /\ a = <<>> THEN <<"none">> ELSE <<b, a>>

\* C20: detachAll(owner) removes every record of that owner from every key and
\* phase and leaves the records of every other owner registered, in their order;
\* detachAll() leaves the subscription registry empty.
C20_DetachAll ==
    [][Did("detachAll")' =>
          IF Listener(last') = "null"
          THEN \A key \in Keys : subs'[key] = 0
          ELSE \A key \in Keys :
                   RegView'[key] = Without(RegView[key], OwnerOf(Listener(last')))
      ]_vars

\* detachAll(o1) has just removed the second of three records of one array; the
\* first and the third, of another owner, are left in that order
C20_Witness ==
    /\ Did("detachAll")
    /\ Listener(last) = "o1"
    /\ n.items = 3
    /\ \E key \in Keys : \E k \in 1..2 :
          /\ Len(RegView[key]) = 2
          /\ Len(RegView[key][k]) = 2
          /\ RegView[key][k][1].id = 1 /\ RegView[key][k][2].id = 3

\* ------------------------------------------------------------ notifiers
\* Notify: notifiers, once or not, on red:save and on red:*, subscribe calls on
\* two topics of the emitter red, and emissions.
InitNotify ==
    InitWith([subs |-> NotifySubs, emits |-> NotifyEmits, other |-> NotifyOther])

NextNotify ==
    \/ \E customEvent \in {RedSave, RedAny}, once \in BOOLEAN : Notify(customEvent, once)
    \/ \E before \in BOOLEAN, customEvent \in {RedSave, RedLoad} :
          SubscribeOne(before, customEvent, "f", "null", FALSE)
    \/ Emit(RedSave, FALSE)
    \/ Return

SpecNotify == InitNotify /\ [][NextNotify]_vars

\* how often the notifier registered on key was called
Firings(log, key) == Cardinality({i \in DOMAIN log : log[i][1] = key})

\* the subscribe call that just returned registered a record on T
SubscribedTo(T) ==
    Did("subscribe") /\ last[1].event /\ handles[last[1].h].ces = <<T>>

\* C21: a notifier registered with once=true on 'red:*' is called by the first
\* subscribe call on a topic of the emitter red, with that topic, and is removed
\* from _notifiers by that call, so that no later subscribe call reaches it.
C21_WildcardOnce ==
    [][\A T \in {RedSave, RedLoad} :
          (notifiers[RedAny] = Notifier(TRUE) /\ SubscribedTo(T)')
          => /\ Firings(notified', RedAny) = Firings(notified, RedAny) + 1
             /\ <<RedAny, T>> \in {notified'[i] : i \in (Len(notified) + 1)..Len(notified')}
             /\ ~notifiers'[RedAny].set]_vars

\* C22: a notifier registered with once=true on the concrete topic T is called
\* with T by the first subscribe call on T and is no longer in _notifiers when
\* that call returns; no subscribe call on T after that and no other call (emit
\* among them) calls a notifier of T.
C22_ConcreteOnce ==
    [][\A T \in {RedSave, RedLoad} :
          /\ (notifiers[T] = Notifier(TRUE) /\ SubscribedTo(T)')
             => /\ Firings(notified', T) = Firings(notified, T) + 1
                /\ notified'[Len(notified) + 1] = <<T, T>>
                /\ ~notifiers'[T].set
          /\ (~notifiers[T].set \/ ~SubscribedTo(T)')
             => Firings(notified', T) = Firings(notified, T)]_vars

\* two subscribe calls on red:save after one notify call: the second found the
\* notifier gone
C22_Witness ==
    /\ SubscribedTo(RedSave)
    /\ Cardinality({item \in Registered : item.key = RedSave}) = 2
    /\ n.other = 1
    /\ ~notifiers[RedSave].set
    /\ notified = <<<<RedSave, RedSave>>>>

\* -------------------------------------------------------------- handles
\* Handle: subscribe calls with arrays of customEvents, malformed ones among
\* them, and detach() calls on the handles they returned, repeated ones too.
InitHandle ==
    InitWith([subs |-> HandleSubs, emits |-> HandleEmits, other |-> HandleOther])

NextHandle ==
    \/ \E before \in BOOLEAN,
          customEvents \in {<<RedSave>>, <<RedSave, AnySave>>, <<StarRedSave, RedSave>>,
                            <<RedSave, ColonSave>>} :
          Subscribe(before, customEvents, "f", "null", FALSE, FALSE)
    \/ \E h \in DOMAIN handles : HandleDetach(h)
    \/ Emit(RedSave, FALSE)
    \/ Return

SpecHandle == InitHandle /\ [][NextHandle]_vars

\* C23: after detach() on the handle that a subscribe call with an array of
\* customEvents returned, none of the records that call created is registered.
C23_CompositeDetach ==
    [][\A h \in DOMAIN handles :
          (Did("detach")' /\ last'[1].h = h) => ItemsOf(h)' = {}]_vars

\* C24: a detach() call on a handle whose detach() was called before leaves the
\* registry as it found it.
C24_DetachIdempotent ==
    [][\A h \in DOMAIN handles :
          (handles[h].calls = 1 /\ Did("detach")' /\ last'[1].h = h)
          => RegView' = RegView]_vars

\* ----------------------------------------------------------------- this
\* This: two emitter objects of the name red subscribe through 'this:save' and
\* through 'red:save'; both, and the Event object, emit red:save.
InitThis ==
    InitWith([subs |-> ThisSubs, emits |-> ThisEmits, other |-> 0])

NextThis ==
    \/ \E before \in BOOLEAN, customEvent \in {ThisSave, RedSave},
          listener \in DOMAIN EmitterNames :
          SubscribeOne(before, customEvent, "f", listener, FALSE)
    \/ \E emitter \in DOMAIN EmitterNames, customEvent \in {Save, RedSave} :
          EmitBy(emitter, customEvent, FALSE)
    \/ Emit(RedSave, FALSE)
    \/ Return

SpecThis == InitThis /\ [][NextThis]_vars

\* the records that subscribe calls naming 'this:save' created
ThroughThis ==
    {item \in UNION {{f.log[i].item : i \in DOMAIN f.log} : f \in Emissions}
              \cup Registered :
        item.call \in DOMAIN handles /\ item.s}

\* C25: a record that owner O subscribed through 'this:event' is invoked only
\* by an emission of O's emitterName:event whose target is O.
C25_ThisOnlyOwn ==
    \A f \in Emissions : \A i \in DOMAIN f.log :
        (f.log[i].kind = "sub" /\ f.log[i].item \in ThroughThis)
        => /\ f.target = f.log[i].item.o
           /\ f.topic = <<EmitterNames[f.log[i].item.o], ":", "save">>

\* o2 emitted red:save while o1 and o2 both were subscribed through 'this:save':
\* the record of o2 was invoked, that of o1, registered first, was not
C25_Witness ==
    /\ Returned
    /\ RetFrame.target = "o2"
    /\ RetFrame.topic = RedSave
    /\ \E x, y \in ThroughThis \cap Registered :
          /\ x.o = "o1" /\ y.o = "o2" /\ x.before /\ y.before /\ x.id < y.id
          /\ Invocations(RetFrame, x) = {}
          /\ Cardinality(Invocations(RetFrame, y)) = 1

\* -------------------------------------------------------------- control
\* Control: one definition of red:save, with or without preventedFn, unHaltable,
\* unPreventable or unSilencable, subscribers of both phases, and callbacks that
\* call halt, preventDefault and preventDefaultContinue; subscribers set
\* event.silent.
InitControl ==
    InitWith([subs |-> ControlSubs, emits |-> ControlEmits, other |-> ControlOther])

NextControl ==
    \/ \E before \in BOOLEAN, customEvent \in {RedSave, AnySave} :
          Subscribe(before, <<customEvent>>, "f", "null", FALSE, FALSE)
    \/ \E chain \in DefChains : DefineEvent(RedSave, chain, FALSE)
    \/ \E silent \in BOOLEAN : Emit(RedSave, silent)
    \/ Return
    \/ Halt("undefined")
    \/ PreventDefault("undefined")
    \/ PreventDefaultContinue("undefined")
    \/ SubscriberSetsSilent

SpecControl == InitControl /\ [][NextControl]_vars

\* every registered record of the phase on a key matching the topic of f was
\* invoked exactly once
PhaseInvokedOnce(f, before) ==
    \A item \in Registered :
        (item.before = before /\ Matches(item.key, f.topic))
        => Cardinality(Invocations(f, item)) = 1

\* C26: on an unSilencable topic, with silent in the payload or set by a
\* subscriber, event.silent is false whenever _emit looks at it and in the
\* returned event, and the subscribers are invoked as without silence: every
\* matching before-subscriber unless the event was halted, every matching
\* after-subscriber when status.ok is true.
C26_UnSilencable ==
    /\ \A f \in Emissions : (f.status.unSilencable /\ f.pc # "inCb") => ~f.silent
    /\ (Returned /\ RetFrame.status.unSilencable /\ ~RetFrame.notes.changed)
       => /\ ~Truthy(RetFrame.status.halted) => PhaseInvokedOnce(RetFrame, TRUE)
          /\ Truthy(RetFrame.status.ok) => PhaseInvokedOnce(RetFrame, FALSE)

\* an emission of the unSilencable topic returned for which silence was asked:
\* its before-subscriber and its after-subscriber were invoked
C26_Witness ==
    /\ Returned
    /\ RetFrame.status.unSilencable
    /\ RetFrame.notes.silenced
    /\ ~RetFrame.silent
    /\ \E i, j \in DOMAIN RetFrame.log :
          /\ RetFrame.log[i].kind = "sub" /\ RetFrame.log[i].before
          /\ RetFrame.log[j].kind = "sub" /\ ~RetFrame.log[j].before

\* ---------------------------------------------------------------- order
\* Order: subscribe calls on two keys, of both phases, with prepend or without,
\* and one emission.
InitOrder ==
    InitWith([subs |-> OrderSubs, emits |-> OrderEmits, other |-> 0])

NextOrder ==
    \/ \E before \in BOOLEAN, customEvent \in {RedSave, AnySave}, prepend \in BOOLEAN :
          SubscribeOne(before, customEvent, "f", "null", prepend)
    \/ Emit(RedSave, FALSE)
    \/ Return

SpecOrder == InitOrder /\ [][NextOrder]_vars

\* C27: of two records of one bucket and phase, the one invoked first is the one
\* registered first, unless the one registered later was registered with
\* prepend=true: then that one is invoked first.
C27_PrependOrder ==
    \A f \in Emissions : \A i, j \in DOMAIN f.log :
        (/\ ~f.notes.changed
         /\ i < j
         /\ SamePhase(f, i, j)
         /\ f.log[i].item.key = f.log[j].item.key)
        => IF f.log[i].item.id < f.log[j].item.id
           THEN ~f.log[j].item.prepend
           ELSE f.log[i].item.id > f.log[j].item.id /\ f.log[i].item.prepend

\* an emission invoked three records of one bucket and phase: a prepended one
\* first, then one registered before it, then one registered later that was
\* not prepended
C27_Witness ==
    /\ Returned
    /\ ~RetFrame.notes.changed
    /\ \E i, j, k \in DOMAIN RetFrame.log :
          /\ i < j /\ j < k
          /\ SamePhase(RetFrame, i, j) /\ SamePhase(RetFrame, j, k)
          /\ RetFrame.log[i].item.key = RetFrame.log[j].item.key
          /\ RetFrame.log[j].item.key = RetFrame.log[k].item.key
          /\ RetFrame.log[i].item.prepend
          /\ RetFrame.log[i].item.id > RetFrame.log[j].item.id
          /\ RetFrame.log[k].item.id > RetFrame.log[i].item.id
          /\ ~RetFrame.log[k].item.prepend

\* the case of C28: the topic of emission f has a definition, a before-subscriber
\* called preventDefaultContinue() on it (the topic is preventable), no
\* before-subscriber called halt() or preventDefault() with effect, and the
\* registry did not change
ContinueCase(f) ==
    /\ f.notes.continueAt > 0
    /\ f.notes.haltAt = 0
    /\ f.notes.preventAt = 0
    /\ f.def.exists
    /\ ~f.notes.changed

\* what C28 says of the returned emission f
ContinueOutcome(f) ==
    /\ FnOfKind(f, "preventedFn") # {}
    /\ FnOfKind(f, "defaultFn") = {}
    /\ Truthy(f.status.ok)
    /\ PhaseInvokedOnce(f, FALSE)

\* C28 as claimed
C28_Original ==
    (Returned /\ ContinueCase(RetFrame)) => ContinueOutcome(RetFrame)

\* C28, amended: when a before-subscriber calls preventDefaultContinue() on a
\* preventable topic whose definition has a preventedFn, nobody halts or calls
\* preventDefault() and nobody asks for silence, preventedFn is invoked instead
\* of defaultFn, status.ok is true and the after-subscribers are invoked.
C28_Continue ==
    (Returned /\ ContinueCase(RetFrame) /\ RetFrame.def.preventedFn # "undefined"
              /\ ~RetFrame.notes.silenced)
        => ContinueOutcome(RetFrame)

\* an emission returned in which the first of two before-subscribers called
\* preventDefaultContinue(): the preventedFn and then an after-subscriber were
\* invoked
C28_Witness ==
    /\ Returned
    /\ ContinueCase(RetFrame)
    /\ RetFrame.notes.continueAt = 1
    /\ ~RetFrame.notes.silenced
    /\ Len(RetFrame.log) = 4
    /\ RetFrame.log[2].kind = "sub" /\ RetFrame.log[2].before
    /\ RetFrame.log[3].kind = "preventedFn"
    /\ RetFrame.log[4].kind = "sub" /\ ~RetFrame.log[4].before

\* status.ok of emission f has been fixed (line 868): its defaultFn, its
\* preventedFn or one of its after-subscribers has control
StatusFixed(f) == f.pc = "inFn" \/ (f.pc = "inCb" /\ ~f.before)

\* the callback that has control called halt, preventDefault or
\* preventDefaultContinue
CalledControl ==
    Did("halt") \/ Did("preventDefault") \/ Did("preventDefaultContinue")

\* C29: a call of halt(), preventDefault() or preventDefaultContinue() by the
\* defaultFn, the preventedFn or an after-subscriber changes no field of
\* event.status, and the after-subscribers of an emission with status.ok true
\* are all invoked, whatever they call.
C29_NoOpOnceFixed ==
    [][/\ (stack # <<>> /\ StatusFixed(Top) /\ CalledControl')
          => stack'[Len(stack)].status = Top.status
       /\ (Returned /\ Truthy(RetFrame.status.ok) /\ ~RetFrame.notes.silenced
                    /\ ~RetFrame.notes.changed)
          => PhaseInvokedOnce(RetFrame, FALSE)]_vars

\* C30: on an unHaltable topic status.halted is never set, and an emission that
\* nobody prevents or silences invokes all its before-subscribers, its defaultFn
\* and all its after-subscribers; on an unPreventable topic
\* status.defaultPrevented and status.defaultPreventedContinue are never set,
\* and an emission that nobody halts invokes defaultFn, not preventedFn, and
\* has status.ok true.
C30_UnHaltableUnPreventable ==
    /\ \A f \in Emissions :
          /\ (f.def.exists /\ f.def.unHaltable) => ~Truthy(f.status.halted)
          /\ (f.def.exists /\ f.def.unPreventable)
             => /\ ~Truthy(f.status.defaultPrevented)
                /\ ~Truthy(f.status.defaultPreventedContinue)
    /\ (Returned /\ RetFrame.def.exists /\ RetFrame.def.unHaltable
                 /\ RetFrame.notes.preventAt = 0 /\ RetFrame.notes.continueAt = 0
                 /\ ~RetFrame.notes.silenced /\ ~RetFrame.notes.changed)
       => /\ PhaseInvokedOnce(RetFrame, TRUE)
          /\ FnOfKind(RetFrame, "defaultFn") # {}
          /\ PhaseInvokedOnce(RetFrame, FALSE)
    /\ (Returned /\ RetFrame.def.exists /\ RetFrame.def.unPreventable
                 /\ RetFrame.notes.haltAt = 0)
       => /\ FnOfKind(RetFrame, "defaultFn") # {}
          /\ FnOfKind(RetFrame, "preventedFn") = {}
          /\ Truthy(RetFrame.status.ok)

\* the first of two before-subscribers of an emission of the unHaltable topic
\* has just called halt(), and status.halted is not set
C30_Witness ==
    /\ Did("halt")
    /\ stack # <<>>
    /\ Top.def.exists /\ Top.def.unHaltable
    /\ Top.pc = "inCb" /\ Top.before
    /\ Len(Top.log) = 1
    /\ Cardinality({item \in Registered : item.before /\ Matches(item.key, Top.topic)}) = 2
    /\ ~Truthy(Top.status.halted)

\* ----------------------------------------------------------------- skip
\* Skip: once-subscriptions of both phases on red:save and *:*, emissions of two
\* topics, nested ones too, and callbacks that halt or prevent the default, so
\* that later subscribers are not reached.
InitSkip ==
    InitWith([subs |-> SkipSubs, emits |-> SkipEmits, other |-> 0])

NextSkip ==
    \/ \E before \in BOOLEAN, customEvent \in {RedSave, AnyAny} :
          Subscribe(before, <<customEvent>>, "f", "null", FALSE, TRUE)
    \/ \E customEvent \in {RedSave, BlueLoad} : Emit(customEvent, FALSE)
    \/ Return
    \/ Halt("undefined")
    \/ PreventDefault("undefined")
    \/ RunTimer

SpecSkip == InitSkip /\ [][NextSkip]_vars

\* the wrapper of once-handle h was invoked in emission f
Reached(f, h) ==
    \E i \in DOMAIN f.log : f.log[i].kind = "sub" /\ f.log[i].item.cb.wrap = h

\* C31: an emission that returns without having reached the record of a
\* once-subscription leaves that record registered and its callback uninvoked;
\* the first emission that reaches the record invokes the callback; and the
\* callback is never invoked a second time.
C31_SkippedOnce ==
    [][\A h \in DOMAIN handles :
          /\ (Returned' /\ ~Reached(RetFrame', h))
             => (ItemsOf(h)' = ItemsOf(h) /\ fired'[h] = fired[h])
          /\ (Returned' /\ Reached(RetFrame', h) /\ ~handles[h].detached)
             => fired'[h] >= 1
          /\ fired'[h] <= 1]_vars

\* ------------------------------------------------------ detach-notifiers
\* Unnotify: notifiers and detach-notifiers on the four keys that match
\* red:save, subscribe calls on red:save and on *:save, and the removal of their
\* records by handle.detach() and by detach('red:save').
InitUnnotify ==
    InitWith([subs |-> UnnotifySubs, emits |-> 0, other |-> UnnotifyOther])

NextUnnotify ==
    \/ \E customEvent \in {RedSave, RedAny, AnySave, AnyAny}, once \in BOOLEAN :
          NotifyDetach(customEvent, once)
    \/ \E customEvent \in {RedAny, AnySave} : Notify(customEvent, FALSE)
    \/ \E before \in BOOLEAN, customEvent \in {RedSave, AnySave} :
          SubscribeOne(before, customEvent, "f", "null", FALSE)
    \/ \E h \in DOMAIN handles : HandleDetach(h)
    \/ Detach("null", RedSave)

SpecUnnotify == InitUnnotify /\ [][NextUnnotify]_vars

\* the keys of the notifiers that this step called, and what they were called with
NewlyNotified(log, logAfter) == {logAfter[i] : i \in (Len(log) + 1)..Len(logAfter)}

\* the notifiers on keys that exist, each called with customEvent T
Called(registered, keys, T) == {<<k, T>> : k \in {key \in keys : registered[key].set}}

C33_DetachNotifierOnce ==
    [][(Did("detachTopic")' /\ Concrete(last'[1].topic))
       => \A k \in Keys :
             detachNotifiers[k] = Notifier(FALSE)
             => Firings(detachNotified', k) <= Firings(detachNotified, k) + 1]_vars

\* ------------------------------------------------------------- override
\* Override: registered subscribers of both phases, a definition, and emissions
\* in the privileged form with override lists for the before phase, the after
\* phase, both or none; callbacks that prevent the default.
InitOverride ==
    InitWith([subs |-> OverrideSubs, emits |-> OverrideEmits, other |-> OverrideOther])

NextOverride ==
    \/ \E before \in BOOLEAN, customEvent \in {RedSave, AnyAny} :
          Subscribe(before, <<customEvent>>, "f", "null", FALSE, FALSE)
    \/ DefineEvent(RedSave, Def("d", "p", FALSE, FALSE, FALSE), FALSE)
    \/ \E beforeSubscribers \in OverrideLists(TRUE), afterSubscribers \in OverrideLists(FALSE) :
          EmitPrivileged(RedSave, beforeSubscribers, afterSubscribers)
    \/ Return
    \/ PreventDefault("undefined")

SpecOverride == InitOverride /\ [][NextOverride]_vars

\* the entries of the log of f that invoked a subscriber in the phase
PhaseLog(f, before) ==
    {i \in DOMAIN f.log : f.log[i].kind = "sub" /\ f.log[i].before = before}

\* the phase of the returned emission f invoked exactly the subscribers of list,
\* each once, and none of the registered ones
OnlyOverride(f, before, list) ==
    /\ \A i \in PhaseLog(f, before) : \E k \in DOMAIN list : f.log[i].item = list[k]
    /\ \A k \in DOMAIN list :
          Cardinality({i \in PhaseLog(f, before) : f.log[i].item = list[k]}) = 1

\* the phase invoked the registered records on matching keys, each once, and no
\* other subscriber
OnlyRegistered(f, before) ==
    /\ PhaseInvokedOnce(f, before)
    /\ \A i \in PhaseLog(f, before) : f.log[i].item \in Registered

\* C34: in the privileged form an override list for the before phase is invoked
\* instead of the registered before-subscribers, while the registered
\* after-subscribers run when status.ok; an override list for the after phase is
\* invoked instead of the registered after-subscribers only; each subscriber of
\* an override list is invoked once, in its phase.
C34_Override ==
    (Returned /\ ~RetFrame.notes.changed)
    => /\ IF RetFrame.over.hasB THEN OnlyOverride(RetFrame, TRUE, RetFrame.over.b)
          ELSE OnlyRegistered(RetFrame, TRUE)
       /\ Truthy(RetFrame.status.ok) =>
             IF RetFrame.over.hasA THEN OnlyOverride(RetFrame, FALSE, RetFrame.over.a)
             ELSE OnlyRegistered(RetFrame, FALSE)
       /\ ~Truthy(RetFrame.status.ok) => PhaseLog(RetFrame, FALSE) = {}

\* an emission with an override list for the before phase only returned: its two
\* subscribers were invoked, the registered before-subscriber was not, the
\* registered after-subscriber was
C34_Witness ==
    /\ Returned
    /\ RetFrame.over.hasB /\ ~RetFrame.over.hasA
    /\ Len(RetFrame.over.b) = 2
    /\ \E x, y \in Registered :
          /\ x.before /\ ~y.before /\ x.key = RedSave /\ y.key = RedSave
          /\ Invocations(RetFrame, x) = {}
          /\ Cardinality(Invocations(RetFrame, y)) = 1
    /\ Cardinality(PhaseLog(RetFrame, TRUE)) = 2

\* ----------------------------------------------------------------- live
\* Live: before-subscribers of three owners on red:save, appended or prepended,
\* one emission, and subscribers that detach a handle or subscribe while the
\* bucket is being dispatched.
InitLive ==
    InitWith([subs |-> LiveSubs, emits |-> LiveEmits, other |-> LiveOther])

NextLive ==
    \/ \E listener \in {"null", "o1", "o2"}, prepend \in BOOLEAN :
          SubscribeOne(TRUE, RedSave, "f", listener, prepend)
    \/ \E h \in DOMAIN handles : HandleDetach(h)
    \/ Emit(RedSave, FALSE)
    \/ Return

SpecLive == InitLive /\ [][NextLive]_vars

\* C35: a record that was in a matching bucket when the emission started and is
\* still registered when it returns was invoked in it, also when subscribers
\* detached records of that bucket meanwhile (no record was added).
C35_DetachDuringDispatch ==
    (Returned /\ n.items = RetFrame.notes.items)
    => \A item \in Registered :
          (Matches(item.key, RetFrame.topic) /\ item.id <= RetFrame.notes.items)
          => Invocations(RetFrame, item) # {}

\* C36: no record is invoked twice in one phase of an emission, and a record
\* registered while the emission was in progress is not invoked in it, also when
\* subscribers append or prepend records to the bucket being dispatched (no
\* record was detached).
C36_SubscribeDuringDispatch ==
    \A f \in Emissions :
        n.other = 0
        => \A i \in DOMAIN f.log :
              /\ f.log[i].item.id <= f.notes.items
              /\ \A j \in DOMAIN f.log :
                    (f.log[j].item.id = f.log[i].item.id
                     /\ f.log[j].before = f.log[i].before) => j = i

\* C37: a subscribe call leaves every persistent notifier registered, whatever
\* once-notifiers it fires, and calls each persistent notifier on a key that
\* matches the concrete topic subscribed to.
C37_PersistentNotifier ==
    [][\A T \in {RedSave, RedLoad} : \A k \in Keys :
          (SubscribedTo(T)' /\ notifiers[k] = Notifier(FALSE))
          => /\ notifiers'[k] = Notifier(FALSE)
             /\ Matches(k, T) => <<k, T>> \in NewlyNotified(notified, notified')]_vars

\* C38: in every event object that emit returns, status.ok is true exactly when
\* neither status.halted nor status.defaultPrevented is set, and
\* status.defaultFn is set only when status.ok is true.
C38_StatusOk ==
    Returned
    => /\ RetFrame.status.ok \in {"true", "false"}
       /\ RetFrame.status.ok = "true"
          <=> (~Truthy(RetFrame.status.halted) /\ ~Truthy(RetFrame.status.defaultPrevented))
       /\ RetFrame.status.defaultFn => RetFrame.status.ok = "true"

\* an emission returned whose preventedFn called halt() after a before-subscriber
\* had prevented the default: status.ok is false, both fields are set
C38_Witness ==
    /\ Returned
    /\ RetFrame.status.ok = "false"
    /\ RetFrame.status.preventedFn
    /\ Truthy(RetFrame.status.halted)
    /\ Truthy(RetFrame.status.defaultPrevented)

\* ------------------------------------------------------------ nested emissions

\* the guarded emitter whose callbacks all come back: a callback that has
\* control returns after finitely many steps of its own. Return is enabled
\* exactly when an activation is on the stack, and weak fairness of Return is
\* written with that condition in the place of ENABLED <<Return>>_vars
SpecGuardFair ==
    InitGuard /\ [][NextGuard]_vars /\ ([]<>(stack = <<>>) \/ []<><<Return>>_vars)

\* the topics emit accepts among those the model passes to it
EmittableTopics == {t \in EmitArgs : MatchCustomEvent(t) # Undefined}

NoTopicTwice ==
    /\ \A i, j \in DOMAIN stack : stack[i].topic = stack[j].topic => i = j
    /\ Len(stack) <= Cardinality(EmittableTopics)

\* C39: no topic is active twice at the same time, so the emissions in progress
\* never nest deeper than the number of distinct topics, also when the
\* subscriber of one topic emits the other and that one's emits the first; and
\* when every callback comes back, every emission that started finishes.
C39_Terminates == []NoTopicTwice /\ ((stack # <<>>) ~> (stack = <<>>))

\* red:save's subscriber emitted blue:load, whose subscriber emitted red:save
\* again and was refused: the nesting is as deep as there are topics
C39_Witness ==
    /\ Len(stack) = Cardinality(EmittableTopics)
    /\ stack[1].topic = BlueLoad /\ stack[2].topic = RedSave
    /\ stack[1].pc = "inCb" /\ stack[2].pc = "inCb"
    /\ last = Done("emit", FALSE, BlueLoad, <<>>, 0)

\* ------------------------------------------- definitions changed while emitting

\* red:save is defined, redefined with and without forceAssign() and undefined
\* by user code, a before-subscriber of its emission included
InitRedefine ==
    InitWith([subs |-> RedefineSubs, emits |-> RedefineEmits, other |-> RedefineOther])

NextRedefine ==
    \/ Subscribe(TRUE, <<RedSave>>, "f", "null", FALSE, FALSE)
    \/ \E chain \in {Def("d", "p", FALSE, FALSE, FALSE), OtherDef}, force \in BOOLEAN :
          DefineEvent(RedSave, chain, force)
    \/ UndefEvent(RedSave)
    \/ Emit(RedSave, FALSE)
    \/ Return
    \/ PreventDefault("undefined")

SpecRedefine == InitRedefine /\ [][NextRedefine]_vars

\* the emission is in its default phase or past it
PastBefore(f) == ~f.before \/ f.pc \in {"inFn", "afterFn", "return"}

\* what emission f ran in its default phase is the defaultFn or preventedFn of
\* the definition found when f started, nothing when there was none, and that
\* definition's defaultFn when nothing halted or prevented the event
RanStartDefinition(f) ==
    /\ \A i \in FnOfKind(f, "defaultFn") :
          f.def.exists /\ f.log[i].item.cb.fn = f.def.defaultFn
    /\ \A i \in FnOfKind(f, "preventedFn") :
          f.def.exists /\ f.log[i].item.cb.fn = f.def.preventedFn
    /\ (PastBefore(f) /\ f.def.exists /\ f.def.defaultFn # "undefined"
        /\ f.status.ok = "true")
       => FnOfKind(f, "defaultFn") # {}

\* C40: the default phase of an emission runs the defaultFn or preventedFn of
\* the definition installed for the topic when the emission started; defining
\* the topic, force-assigning another definition or undefining the topic while
\* the emission is under way changes the registry only, for the emissions that
\* start afterwards.
C40_StartDefinition ==
    [][/\ (EmitStep /\ Len(stack') > Len(stack)) =>
             stack'[Len(stack')].def = ce[stack'[Len(stack')].topic]
       /\ (EmitStep /\ Returned') => RetFrame'.def = ce[RetFrame'.topic]
       /\ \A i \in DOMAIN stack \cap DOMAIN stack' : stack'[i].def = stack[i].def
       /\ (Len(stack') < Len(stack) /\ Returned') => RetFrame'.def = stack[Len(stack)].def
       /\ \A f \in Emissions' : RanStartDefinition(f)
      ]_vars

\* an emission of red:save has returned that started under the definition with
\* defaultFn d, whose before-subscriber force-assigned another definition, and
\* that ran d
C40_Witness ==
    /\ Returned
    /\ RetFrame.def = Def("d", "p", FALSE, FALSE, FALSE)
    /\ ce[RetFrame.topic] = OtherDef
    /\ FnOfKind(RetFrame, "sub") # {}
    /\ \E i \in FnOfKind(RetFrame, "defaultFn") : RetFrame.log[i].item.cb.fn = "d"
    /\ n.other = 2

====
